---- MODULE Spec2Model ----
(***************************************************************************)
(* BarterUp backend: the request handlers, the unverified bearer-token     *)
(* extractor, the validation of signup and profile completion, the post    *)
(* listing with its fallback, and the local profile-picture storage.       *)
(*                                                                         *)
(* One request is served at a time by one action per handler.  The BaaS    *)
(* (Supabase) and the local file system are the environment: every call    *)
(* to them draws its outcome from a small set.                             *)
(***************************************************************************)
EXTENDS Integers, Sequences, FiniteSets, TLC

VARIABLES
    pc,      \* position of the process: in main, or "idle" | "done" | "panic" serving
    req,     \* the request being served (handler name and its inputs)
    resp,    \* the response sent (status, body kind, message, data)
    calls,   \* BaaS calls sent while serving this request, in order
    fsops,   \* local file-system operations while serving this request, in order
    fs,      \* local file system: [dir |-> BOOLEAN, files |-> path -> bytes]
    today,   \* the calendar day chrono::Utc::now() reports
    served,  \* number of requests served so far
    env,     \* names of the variables set in the process environment
    workers, \* the uploads in flight on the server's worker threads
    db       \* the BaaS's profiles table: user id -> profile_picture_url

vars == <<pc, req, resp, calls, fsops, fs, today, served, env, workers, db>>

(***************************************************************************)
(* Bounds of the model.                                                    *)
(***************************************************************************)
MaxSegments == 4      \* dot-separated segments of a generated bearer token
MaxRequests == 2      \* requests served in one behaviour of the looping specs
MaxPathSegs == 4      \* '/'-separated segments of a requested picture filename

Users == {"u1", "u2"}

(***************************************************************************)
(* Sequence helpers.                                                       *)
(***************************************************************************)
Last(s) == s[Len(s)]

Front(s) == SubSeq(s, 1, Len(s) - 1)

RECURSIVE Concat(_)
Concat(ss) == IF ss = <<>> THEN <<>> ELSE Head(ss) \o Concat(Tail(ss))

\* str.split(sep): the pieces between the occurrences of sep (always >= 1 piece).
RECURSIVE SplitOn(_, _)
SplitOn(s, sep) ==
    IF \A i \in 1..Len(s) : s[i] # sep THEN <<s>>
    ELSE LET i == CHOOSE j \in 1..Len(s) :
                      s[j] = sep /\ \A k \in 1..(j - 1) : s[k] # sep
         IN  <<SubSeq(s, 1, i - 1)>> \o SplitOn(SubSeq(s, i + 1, Len(s)), sep)

\* The pieces joined again with sep between them.
RECURSIVE JoinWith(_, _)
JoinWith(ss, sep) ==
    IF ss = <<>> THEN <<>>
    ELSE IF Len(ss) = 1 THEN ss[1]
    ELSE ss[1] \o <<sep>> \o JoinWith(Tail(ss), sep)

SeqsUpTo(S, n) == UNION {[1..k -> S] : k \in 0..n}

(***************************************************************************)
(* Responses.  kind is the body: "envelope" is the ApiResponse struct      *)
(* {status, message, data}; "json" is another JSON object with the fields  *)
(* listed; "text" is a plain-text error body; "bytes" a file.              *)
(***************************************************************************)
EnvelopeFields == {"status", "message", "data"}

\* data: None is serialised as null; the record then carries no payload.
NoData == [null |-> TRUE]

ApiResponse(code, status, message, data) ==
    [code |-> code, kind |-> "envelope", fields |-> EnvelopeFields,
     status |-> status, message |-> message, data |-> data]

\* actix's ErrorUnauthorized(msg): status 401 with msg as a plain-text body.
ErrorUnauthorized(msg) ==
    [code |-> 401, kind |-> "text", fields |-> {},
     status |-> "", message |-> msg, data |-> NoData]

NoResponse ==
    [code |-> 0, kind |-> "none", fields |-> {},
     status |-> "", message |-> "", data |-> NoData]

(***************************************************************************)
(* The Authorization header and the bearer token.                          *)
(*                                                                         *)
(* A header value is a sequence of symbols.  A symbol is the text          *)
(* "Bearer ", a blank, a dot, or a run of base64 text.  A run stands for   *)
(* the digits that encode one document: doc names the decoded bytes,       *)
(* alpha the alphabet the digits need ("alnum": letters and digits only,   *)
(* "url": also - or _, "std": also + or /, "junk": a character of          *)
(* neither), pad the number of trailing '=' and rem the number of digits   *)
(* modulo 4.                                                               *)
(***************************************************************************)
Sym(k) == [k |-> k, doc |-> "", alpha |-> "", pad |-> 0, rem |-> 0]

BEARER == Sym("Bearer ")

SP == Sym(" ")

DOT == Sym(".")

Run(doc, alpha, pad, rem) ==
    [k |-> "b64", doc |-> doc, alpha |-> alpha, pad |-> pad, rem |-> rem]

\* The documents a run can encode: what serde_json and Uuid::parse_str see.
\* sub is "absent", "number" or "string"; uuid is the identifier the string
\* spells ("" when it spells none) and form the textual form it is in.
DocInfo(doc) ==
    CASE doc = "sub_u1"      -> [utf8 |-> TRUE, json |-> TRUE, sub |-> "string",
                                 uuid |-> "u1", form |-> "hyphenated"]
      [] doc = "sub_u2"      -> [utf8 |-> TRUE, json |-> TRUE, sub |-> "string",
                                 uuid |-> "u2", form |-> "simple"]
      [] doc = "sub_bad"     -> [utf8 |-> TRUE, json |-> TRUE, sub |-> "string",
                                 uuid |-> "", form |-> "garbage"]
      [] doc = "sub_num"     -> [utf8 |-> TRUE, json |-> TRUE, sub |-> "number",
                                 uuid |-> "", form |-> ""]
      [] doc = "no_sub"      -> [utf8 |-> TRUE, json |-> TRUE, sub |-> "absent",
                                 uuid |-> "", form |-> ""]
      [] doc = "not_json"    -> [utf8 |-> TRUE, json |-> FALSE, sub |-> "absent",
                                 uuid |-> "", form |-> ""]
      [] doc = "not_utf8"    -> [utf8 |-> FALSE, json |-> FALSE, sub |-> "absent",
                                 uuid |-> "", form |-> ""]
      [] OTHER               -> [utf8 |-> TRUE, json |-> FALSE, sub |-> "absent",
                                 uuid |-> "", form |-> ""]

\* Uuid::parse_str: the hyphenated, simple, braced and URN forms are accepted.
UuidParse(info) ==
    IF info.form \in {"hyphenated", "simple", "braced", "urn"} /\ info.uuid \in Users
    THEN [ok |-> TRUE, id |-> info.uuid]
    ELSE [ok |-> FALSE, id |-> ""]

\* The bytes a decodable segment decodes to: the document of its single run;
\* no bytes for the empty segment; several runs give no single document.
DecodedDoc(seg) ==
    IF seg = <<>> THEN "empty"
    ELSE IF Len(seg) = 1 THEN seg[1].doc
    ELSE "concatenation"

\* base64 GeneralPurpose::decode with the given alphabets; canonical says
\* whether padding is required in canonical form (STANDARD) or refused
\* (URL_SAFE_NO_PAD).  A digit count of 1 modulo 4 is never valid.
Base64Decode(seg, alphabets, canonical) ==
    LET n == Len(seg)
        symbolsOk == \A i \in 1..n : seg[i].k = "b64" /\ seg[i].alpha \in alphabets
        innerOk == \A i \in 1..(n - 1) : seg[i].pad = 0 /\ seg[i].rem = 0
        lastOk == n = 0 \/
                  ( /\ seg[n].rem # 1
                    /\ IF canonical THEN seg[n].pad = (4 - seg[n].rem) % 4
                                    ELSE seg[n].pad = 0 )
    IN  IF symbolsOk /\ innerOk /\ lastOk
        THEN [ok |-> TRUE, doc |-> DecodedDoc(seg)]
        ELSE [ok |-> FALSE, doc |-> ""]

URL_SAFE_NO_PAD_decode(seg) == Base64Decode(seg, {"alnum", "url"}, FALSE)

STANDARD_decode(seg) == Base64Decode(seg, {"alnum", "std"}, TRUE)

AuthOk(id) == [ok |-> TRUE, user_id |-> id, err |-> ""]

AuthErr(msg) == [ok |-> FALSE, user_id |-> "", err |-> msg]

\* The four steps without the last: any string sub is taken as the identity.
SubOfPayloadAnyString(doc) ==
    LET info == DocInfo(doc)
    IN  IF ~info.utf8 THEN AuthErr("UTF8 error")
        ELSE IF ~info.json THEN AuthErr("JSON parse error")
        ELSE IF info.sub # "string" THEN AuthErr("Missing 'sub' field in token")
        ELSE AuthOk(info.uuid)

\* String::from_utf8, serde_json::from_str, json["sub"].as_str(), Uuid::parse_str
\* on the decoded payload (the same four steps in both decoder branches).
SubOfPayload(doc) ==
    LET info == DocInfo(doc)
    IN  IF ~info.utf8 THEN AuthErr("UTF8 error")
        ELSE IF ~info.json THEN AuthErr("JSON parse error")
        ELSE IF info.sub # "string" THEN AuthErr("Missing 'sub' field in token")
        ELSE IF ~UuidParse(info).ok THEN AuthErr("Invalid UUID")
        ELSE AuthOk(UuidParse(info).id)

\* The extractor reading the first segment instead of the second.
extract_user_id_from_first_segment(token) ==
    LET parts == SplitOn(token, DOT)
    IN  IF Len(parts) # 3 THEN AuthErr("Invalid JWT format")
        ELSE LET payload == parts[1]
                 url == URL_SAFE_NO_PAD_decode(payload)
                 std == STANDARD_decode(payload)
             IN  IF url.ok THEN SubOfPayload(url.doc)
                 ELSE IF std.ok THEN SubOfPayload(std.doc)
                 ELSE AuthErr("Both base64 decoders failed")

extract_user_id_from_jwt(token) ==
    LET parts == SplitOn(token, DOT)
    IN  IF Len(parts) # 3 THEN AuthErr("Invalid JWT format")
        ELSE LET payload == parts[2]
                 url == URL_SAFE_NO_PAD_decode(payload)
                 std == STANDARD_decode(payload)
             IN  IF url.ok THEN SubOfPayload(url.doc)
                 ELSE IF std.ok THEN SubOfPayload(std.doc)
                 ELSE AuthErr("Both base64 decoders failed")

\* str::trim_start_matches("Bearer "): every leading repetition is removed.
RECURSIVE TrimStartMatches(_, _)
TrimStartMatches(s, prefix) ==
    IF s # <<>> /\ s[1] = prefix THEN TrimStartMatches(Tail(s), prefix) ELSE s

\* str::trim(): leading and trailing white space removed.
RECURSIVE Trim(_)
Trim(s) ==
    IF s # <<>> /\ s[1] = SP THEN Trim(Tail(s))
    ELSE IF s # <<>> /\ Last(s) = SP THEN Trim(Front(s))
    ELSE s

\* A request's Authorization header: absent, or bytes that are not visible
\* ASCII (HeaderValue::to_str fails), or text.
Header(present, ascii, text) == [present |-> present, ascii |-> ascii, text |-> text]

\* AuthenticatedUser::from_request: the user id, or the 401 the request gets.
from_request(hdr) ==
    IF ~hdr.present THEN [ok |-> FALSE, user_id |-> "",
                          reject |-> ErrorUnauthorized("Missing Authorization header")]
    ELSE IF ~hdr.ascii THEN [ok |-> FALSE, user_id |-> "",
                             reject |-> ErrorUnauthorized("Invalid header format")]
    ELSE IF ~(hdr.text # <<>> /\ hdr.text[1] = BEARER)
         THEN [ok |-> FALSE, user_id |-> "",
               reject |-> ErrorUnauthorized("Invalid auth header format")]
    ELSE LET token == Trim(TrimStartMatches(hdr.text, BEARER))
             r == extract_user_id_from_jwt(token)
         IN  IF r.ok THEN [ok |-> TRUE, user_id |-> r.user_id, reject |-> NoResponse]
             ELSE [ok |-> FALSE, user_id |-> "",
                   reject |-> ErrorUnauthorized("Invalid token")]

(***************************************************************************)
(* Strings of request bodies.  A string is kept by the properties the      *)
(* handlers read: its text, its number of characters, its length in bytes  *)
(* (str::len) and whether trim() leaves it empty.                          *)
(***************************************************************************)
Text(text, chars, bytes) ==
    [text |-> text, chars |-> chars, bytes |-> bytes, blank |-> FALSE]

Blank(chars) == [text |-> "", chars |-> chars, bytes |-> chars, blank |-> TRUE]

\* str::trim().is_empty()
TrimIsEmpty(t) == t.blank

\* str::len(): the length in bytes.
StrLen(t) == t.bytes

(***************************************************************************)
(* Calendar dates.  A date is [y, m, d]; chrono compares and subtracts on  *)
(* the day number of the proleptic Gregorian calendar.                     *)
(***************************************************************************)
Date(y, m, d) == [y |-> y, m |-> m, d |-> d]

IsLeap(y) == (y % 4 = 0 /\ y % 100 # 0) \/ y % 400 = 0

DaysInMonth(y, m) ==
    IF m = 2 THEN (IF IsLeap(y) THEN 29 ELSE 28)
    ELSE IF m \in {4, 6, 9, 11} THEN 30 ELSE 31

ValidDate(y, m, d) == m \in 1..12 /\ d \in 1..DaysInMonth(y, m)

\* Days since 1970-01-01 (years >= 1).
DayNumber(dt) ==
    LET yy == IF dt.m <= 2 THEN dt.y - 1 ELSE dt.y
        era == yy \div 400
        yoe == yy - era * 400
        mp == IF dt.m > 2 THEN dt.m - 3 ELSE dt.m + 9
        doy == (153 * mp + 2) \div 5 + dt.d - 1
        doe == yoe * 365 + yoe \div 4 - yoe \div 100 + doy
    IN  era * 146097 + doe - 719468

(***************************************************************************)
(* Date strings.  A date string is a sequence of tokens: a run of w        *)
(* decimal digits of value v, or one of the characters '/', '-', ' ' and   *)
(* 'x' (any other character).                                              *)
(***************************************************************************)
Num(v, w) == [k |-> "num", v |-> v, w |-> w]

Ch(c) == [k |-> c, v |-> 0, w |-> 0]

\* The items of the three strftime formats the handlers use.
FormatItems(fmt) ==
    CASE fmt = "%d/%m/%Y" -> <<"d", "/", "m", "/", "Y">>
      [] fmt = "%Y-%m-%d" -> <<"Y", "-", "m", "-", "d">>
      [] fmt = "%m/%d/%Y" -> <<"m", "/", "d", "/", "Y">>

\* chrono's widths of the numeric items: at most 2 digits for day and month,
\* at most 4 for an unsigned year; at least 1 digit each.
ItemWidth(item) == IF item = "Y" THEN 4 ELSE 2

\* chrono::format::parse: numeric items skip leading white space and take a
\* digit run of at most the item's width; literals must match; nothing may
\* follow the last item.  acc collects the fields; ok = FALSE is a ParseError.
RECURSIVE ParseItems(_, _, _)
ParseItems(s, items, acc) ==
    IF items = <<>> THEN [ok |-> s = <<>>, f |-> acc]
    ELSE IF Head(items) \in {"d", "m", "Y"}
    THEN LET t == TrimStartMatches(s, Ch(" "))
         IN  IF t = <<>> \/ t[1].k # "num" \/ t[1].w > ItemWidth(Head(items))
             THEN [ok |-> FALSE, f |-> acc]
             ELSE ParseItems(Tail(t), Tail(items),
                             [acc EXCEPT ![Head(items)] = t[1].v])
    ELSE IF s = <<>> \/ s[1].k # Head(items)
         THEN [ok |-> FALSE, f |-> acc]
         ELSE ParseItems(Tail(s), Tail(items), acc)

\* NaiveDate::parse_from_str(s, fmt): the date, when the fields name one.
parse_from_str(s, fmt) ==
    LET r == ParseItems(s, FormatItems(fmt), [d |-> 0, m |-> 0, Y |-> 0])
    IN  IF r.ok /\ ValidDate(r.f.Y, r.f.m, r.f.d)
        THEN [ok |-> TRUE, date |-> Date(r.f.Y, r.f.m, r.f.d)]
        ELSE [ok |-> FALSE, date |-> Date(0, 0, 0)]

\* NaiveDate::format("%Y-%m-%d").to_string(): zero-padded to 4, 2, 2 digits.
FormatIso(dt) ==
    <<Num(dt.y, IF dt.y > 9999 THEN 5 ELSE 4), Ch("-"), Num(dt.m, 2), Ch("-"),
      Num(dt.d, 2)>>

(***************************************************************************)
(* BaaS calls.  A call is recorded with its operation, its argument and    *)
(* the outcome the environment gave it.                                    *)
(***************************************************************************)
Call(op, arg, out) == [op |-> op, arg |-> arg, out |-> out]

\* The outcomes worth drawing for a request: all of them when the handler
\* sends a call, one when it sends none (the outcome is then never read).
Relevant(outcomes, CallsWith(_)) ==
    LET any == CHOOSE o \in outcomes : TRUE
    IN  IF CallsWith(any) = <<>> THEN {any} ELSE outcomes

(***************************************************************************)
(* POST /auth/signup.                                                      *)
(*                                                                         *)
(* An email is a sequence of character classes: "a" a lower-case letter,   *)
(* "A" an upper-case letter, "1" a digit or '-', "_" one of _ % +, ".",    *)
(* "@" and " " (white space, standing also for every character the         *)
(* pattern admits nowhere).                                                *)
(***************************************************************************)
MinPasswordLen == 6

\* str::to_lowercase
ToLowercase(s) == [i \in 1..Len(s) |-> IF s[i] = "A" THEN "a" ELSE s[i]]

\* str::trim on an email
RECURSIVE TrimEmail(_)
TrimEmail(s) ==
    IF s # <<>> /\ s[1] = " " THEN TrimEmail(Tail(s))
    ELSE IF s # <<>> /\ Last(s) = " " THEN TrimEmail(Front(s))
    ELSE s

\* The character classes of (?i)^[A-Z0-9._%+-]+@[A-Z0-9.-]+\.[A-Z]{2,}$
InLocalClass(c) == c \in {"a", "A", "1", "_", "."}

InDomainClass(c) == c \in {"a", "A", "1", "."}

InTldClass(c) == c \in {"a", "A"}

\* One step of the automaton of the pattern.  States: 0 start, 1 inside the
\* local part, 2 after '@', 3 inside the domain, 4 after the dot before the
\* TLD, 5 after one TLD letter, 6 after two or more (accepting).
RegexStep(S, c) ==
    {1 : q \in {q \in S : q \in {0, 1} /\ InLocalClass(c)}}
    \cup {2 : q \in {q \in S : q = 1 /\ c = "@"}}
    \cup {3 : q \in {q \in S : q \in {2, 3} /\ InDomainClass(c)}}
    \cup {4 : q \in {q \in S : q = 3 /\ c = "."}}
    \cup {5 : q \in {q \in S : q = 4 /\ InTldClass(c)}}
    \cup {6 : q \in {q \in S : q \in {5, 6} /\ InTldClass(c)}}

RECURSIVE RegexRun(_, _)
RegexRun(S, s) == IF s = <<>> THEN S ELSE RegexRun(RegexStep(S, Head(s)), Tail(s))

\* The pattern with a TLD of one letter admitted ({1,} for {2,}).
looks_like_email_tld1(email) == RegexRun({0}, email) \cap {5, 6} # {}

looks_like_email(email) == 6 \in RegexRun({0}, email)

\* body.password.len() < 6
PasswordTooShort(password) == StrLen(password) < MinPasswordLen

\* An error text is a sequence of phrases; str::contains finds a phrase.
Contains(text, phrase) == \E i \in 1..Len(text) : text[i] = phrase

\* AuthError and its Display (thiserror): the variant's prefix, then the
\* message it carries.
AuthError(variant, msg) == [variant |-> variant, msg |-> msg]

to_string_without_message(e) ==
    CASE e.variant = "Http" -> <<"http error: ">>
      [] e.variant = "Supabase" -> <<"supabase error: ">>
      [] e.variant = "UuidError" -> <<"parse uuid error">>
      [] OTHER -> <<"other: ">>

to_string(e) ==
    CASE e.variant = "Http" -> <<"http error: ">> \o e.msg
      [] e.variant = "Supabase" -> <<"supabase error: ">> \o e.msg
      [] e.variant = "UuidError" -> <<"parse uuid error">>
      [] OTHER -> <<"other: ">> \o e.msg

\* The answer of the BaaS to the signup call.  kind: "transport" the
\* request failed; "ok" a success status and a body with the id of user;
\* "invalid_json", "no_user_id", "bad_uuid" a success status and a body
\* that does not parse, has no id, or has an id that is no UUID;
\* "status_msg" a non-success status and a JSON body whose msg (or message)
\* is the string text; "status_msg_other" the same with a msg that is no
\* string; "status_raw" a non-success status and a body text that is not
\* JSON or has neither field.
SignupOutcome(kind, user, text) == [kind |-> kind, user |-> user, text |-> text]

\* AuthService::signup_only: the user id, or the error.
signup_only(out) ==
    LET Err(e) == [ok |-> FALSE, user_id |-> "", error |-> e]
    IN  CASE out.kind = "transport" ->
               Err(AuthError("Http", <<"error sending request">>))
          [] out.kind = "status_msg" -> Err(AuthError("Supabase", out.text))
          [] out.kind = "status_msg_other" ->
               Err(AuthError("Supabase", <<"Signup failed">>))
          [] out.kind = "status_raw" ->
               Err(AuthError("Supabase", <<"signup failed: ", "422", " ">> \o out.text))
          [] out.kind = "invalid_json" ->
               Err(AuthError("Supabase", <<"invalid json: ", "expected value">>))
          [] out.kind = "no_user_id" ->
               Err(AuthError("Supabase", <<"signup returned no user id">>))
          [] out.kind = "bad_uuid" -> Err(AuthError("UuidError", <<>>))
          [] OTHER -> [ok |-> TRUE, user_id |-> out.user, error |-> AuthError("", <<>>)]

\* The texts a BaaS failure carries: the duplicate-email message of the
\* BaaS, the same in other letters, and another failure.
BaaSErrorTexts ==
    {<<"User ", "already registered">>, <<"User ", "Already Registered">>,
     <<"email rate limit exceeded">>}

SignupOutcomes ==
    {SignupOutcome("ok", u, <<>>) : u \in Users}
    \cup {SignupOutcome(k, "", t) : k \in {"status_msg", "status_raw"}, t \in BaaSErrorTexts}
    \cup {SignupOutcome(k, "", <<"User ", "already registered">>) :
            k \in {"status_msg_other", "invalid_json"}}
    \cup {SignupOutcome(k, "", <<>>) : k \in {"transport", "no_user_id", "bad_uuid"}}

\* The handler: the response and the BaaS calls it made.
signup_handler(body, out) ==
    LET email == ToLowercase(TrimEmail(body.email))
        call == Call("signup", [email |-> email, password |-> body.password], out)
        r == signup_only(out)
    IN  IF ~looks_like_email(email)
        THEN [resp |-> ApiResponse(400, "error", "Invalid email format", NoData),
              calls |-> <<>>]
        ELSE IF PasswordTooShort(body.password)
        THEN [resp |-> ApiResponse(400, "error",
                          "Password must be at least 6 characters long", NoData),
              calls |-> <<>>]
        ELSE IF r.ok
        THEN [resp |-> ApiResponse(201, "success", "Account created",
                          [null |-> FALSE, user_id |-> r.user_id,
                           next_step |-> "complete_profile"]),
              calls |-> <<call>>]
        ELSE [resp |-> ApiResponse(400, "error",
                          IF Contains(to_string(r.error), "already registered")
                          THEN "Email already exists. Please login instead."
                          ELSE "Failed to create account. Please try again.", NoData),
              calls |-> <<call>>]

MaxEmailLen == 6

EmailChars == {"a", "A", "1", ".", "@", " "}

Emails == SeqsUpTo(EmailChars, MaxEmailLen)

\* Passwords: ASCII ones of 5 and 6 characters, and one of 3 two-byte
\* characters (6 bytes).
Passwords == {Text("pw", 5, 5), Text("pw", 6, 6), Text("pw", 3, 6)}

\* The passwords worth drawing with an email: all of them when the email
\* passes the handler's first check, and otherwise the one that would pass
\* the second.
PasswordsFor(email) ==
    IF looks_like_email(ToLowercase(TrimEmail(email))) THEN Passwords
    ELSE {Text("pw", 6, 6)}

signup ==
    /\ pc = "idle"
    /\ \E email \in Emails :
        \E password \in PasswordsFor(email) :
        \E body \in {[email |-> email, password |-> password]} :
        \E out \in Relevant(SignupOutcomes, LAMBDA o : signup_handler(body, o).calls) :
        \E r \in {signup_handler(body, out)} :
              /\ req' = [handler |-> "signup", body |-> body]
              /\ resp' = r.resp
              /\ calls' = r.calls
    /\ pc' = "done"
    /\ served' = served + 1
    /\ UNCHANGED <<fsops, fs, today, env, workers, db>>

(***************************************************************************)
(* POST /auth/complete-profile.                                            *)
(***************************************************************************)
MinAgeYears == 13

MaxAgeYears == 120

DaysPerYear == 365

MaxSkillLen == 100

MaxBioLen == 1000

\* date_of_birth.trim().is_empty() on a date string
DateStrIsBlank(s) == \A i \in 1..Len(s) : s[i] = Ch(" ")

\* "%d/%m/%Y" first, "%Y-%m-%d" as the fallback.
ParseDobDayFirst(s) ==
    LET dmy == parse_from_str(s, "%d/%m/%Y")
    IN  IF dmy.ok THEN dmy ELSE parse_from_str(s, "%Y-%m-%d")

\* The day-first format replaced by the month-first one.
ParseDobMonthFirst(s) ==
    LET mdy == parse_from_str(s, "%m/%d/%Y")
    IN  IF mdy.ok THEN mdy ELSE parse_from_str(s, "%Y-%m-%d")

ParseDob(s) == ParseDobDayFirst(s)

\* today - Duration::days(365 * 120) and today - Duration::days(365 * 13),
\* compared as day numbers.
AgeOutOfRange(parsed, now) ==
    LET min_date == DayNumber(now) - DaysPerYear * MaxAgeYears
        max_date == DayNumber(now) - DaysPerYear * MinAgeYears
    IN  DayNumber(parsed) < min_date \/ DayNumber(parsed) > max_date

\* login_with_user_id with a missing user defaulted instead of refused.
login_with_user_id_user_defaulted(out) ==
    IF out.kind \in {"ok", "no_user"} THEN [ok |-> TRUE, user_id |-> out.user]
    ELSE [ok |-> FALSE, user_id |-> ""]

\* AuthService::login_with_user_id: session and user id when the BaaS answers
\* 200 with a parseable body that carries a user with a well-formed id.
login_with_user_id(out) ==
    IF out.kind = "ok" THEN [ok |-> TRUE, user_id |-> out.user]
    ELSE [ok |-> FALSE, user_id |-> ""]

LoginOutcomes ==
    {[kind |-> "ok", user |-> u] : u \in Users}
    \cup {[kind |-> k, user |-> ""] :
             k \in {"transport", "status", "malformed", "no_user", "bad_uuid"}}

\* AuthService::add_personal_sb: the saved row when the BaaS answers with a
\* success status and an array whose first element carries a well-formed id.
add_personal_sb(out) == [ok |-> out.kind = "ok"]

UpsertOutcomes ==
    {[kind |-> k] : k \in {"ok", "transport", "status", "malformed", "empty"}}

\* VALID_SKILLS, the list NewPersonal::validate and Personal::validate test.
VALID_SKILLS ==
    {"Music", "Art", "Cooking", "Photography", "Design", "Programming", "Writing",
     "Fitness", "Gardening"}

BadRequest(msg) == ApiResponse(400, "error", msg, NoData)

\* The validation of the handler, in its order: the 400 it answers, or none.
complete_profile_validation(body, now) ==
    IF \/ TrimIsEmpty(body.email) \/ TrimIsEmpty(body.password)
       \/ DateStrIsBlank(body.date_of_birth)
       \/ TrimIsEmpty(body.primary_skill) \/ TrimIsEmpty(body.skill_to_learn)
       \/ TrimIsEmpty(body.bio)
    THEN [ok |-> FALSE, resp |-> BadRequest("All fields are required")]
    ELSE IF ~ParseDob(body.date_of_birth).ok
    THEN [ok |-> FALSE, resp |-> BadRequest("Invalid date format. Use DD/MM/YYYY")]
    ELSE IF AgeOutOfRange(ParseDob(body.date_of_birth).date, now)
    THEN [ok |-> FALSE, resp |-> BadRequest("Age must be between 13 and 120 years")]
    ELSE IF StrLen(body.primary_skill) > MaxSkillLen
            \/ StrLen(body.skill_to_learn) > MaxSkillLen
    THEN [ok |-> FALSE,
          resp |-> BadRequest("Skills must be less than 100 characters each")]
    ELSE IF StrLen(body.bio) > MaxBioLen
    THEN [ok |-> FALSE, resp |-> BadRequest("Bio must be less than 1000 characters")]
    ELSE [ok |-> TRUE, resp |-> NoResponse]

\* The handler: the response and the BaaS calls it made.
complete_profile_handler(body, now, login, upsert) ==
    LET v == complete_profile_validation(body, now)
        loginCall == Call("login", [email |-> body.email, password |-> body.password],
                          login)
        l == login_with_user_id(login)
        payload == [id |-> l.user_id,
                    date_of_birth |-> FormatIso(ParseDob(body.date_of_birth).date),
                    primary_skill |-> body.primary_skill,
                    skill_to_learn |-> body.skill_to_learn,
                    bio |-> body.bio,
                    role |-> "user"]
        upsertCall == Call("upsert_profile", payload, upsert)
    IN  IF ~v.ok THEN [resp |-> v.resp, calls |-> <<>>]
        ELSE IF ~l.ok
        THEN [resp |-> ApiResponse(401, "error",
                          "Invalid credentials or account not activated", NoData),
              calls |-> <<loginCall>>]
        ELSE IF add_personal_sb(upsert).ok
        THEN [resp |-> ApiResponse(201, "success", "Profile completed and logged in",
                          [null |-> FALSE, user_id |-> l.user_id,
                           next_step |-> "upload_profile"]),
              calls |-> <<loginCall, upsertCall>>]
        ELSE [resp |-> ApiResponse(500, "error",
                          "Failed to save profile. Please try again.", NoData),
              calls |-> <<loginCall, upsertCall>>]

\* The number of decimal digits of n (n < 10000).
Digits(n) == IF n < 10 THEN 1 ELSE IF n < 100 THEN 2 ELSE IF n < 1000 THEN 3 ELSE 4

DobYears == {1905, 1906, 1907, 1990, 2013, 2014}

DobMonths == {2, 6, 11, 12, 13}

DobDays == {4, 5, 7, 8, 20, 29, 31}

\* Dates of birth as clients write them: day first with '/', ISO, each with
\* and without leading zeros; and strings that are no date in either form.
DobStrings ==
    {<<Num(d, w), Ch("/"), Num(m, w), Ch("/"), Num(y, Digits(y))>> :
        d \in DobDays, m \in DobMonths, y \in DobYears, w \in {2}}
    \cup {<<Num(d, Digits(d)), Ch("/"), Num(m, Digits(m)), Ch("/"), Num(y, 4)>> :
        d \in DobDays, m \in DobMonths, y \in DobYears}
    \cup {<<Num(y, 4), Ch("-"), Num(m, 2), Ch("-"), Num(d, 2)>> :
        d \in DobDays, m \in DobMonths, y \in DobYears}
    \cup {<<>>, <<Ch(" ")>>, <<Ch("x")>>,
          <<Num(15, 2), Ch("/"), Num(6, 2), Ch("/"), Num(90, 2)>>,
          <<Num(15, 3), Ch("/"), Num(6, 2), Ch("/"), Num(1990, 4)>>,
          <<Num(15, 2), Ch("/"), Num(6, 2), Ch("/"), Num(1990, 5)>>,
          <<Num(15, 2), Ch("/"), Num(6, 2), Ch("-"), Num(1990, 4)>>,
          <<Num(15, 2), Ch("-"), Num(6, 2), Ch("-"), Num(1990, 4)>>,
          <<Num(1990, 4), Ch("/"), Num(6, 2), Ch("/"), Num(15, 2)>>,
          <<Ch(" "), Num(15, 2), Ch("/"), Num(6, 2), Ch("/"), Num(1990, 4)>>,
          <<Num(15, 2), Ch("/"), Num(6, 2), Ch("/"), Num(1990, 4), Ch(" ")>>,
          <<Num(15, 2), Ch("/"), Num(6, 2), Ch("/"), Num(1990, 4), Ch("x")>>,
          <<Num(15, 2), Ch("/"), Num(6, 2)>>,
          <<Num(15, 2), Ch("/"), Num(6, 2), Ch("/"), Num(1990, 4)>>}

CompleteProfileBodies ==
    [email : {Text("a@a.aa", 6, 6), Blank(0)},
     password : {Text("pw", 6, 6), Blank(1)},
     date_of_birth : DobStrings,
     primary_skill : {Text("Music", 5, 5), Blank(0), Text("long", 101, 101),
                      Text("wide", 60, 120)},
     skill_to_learn : {Text("Art", 3, 3), Text("Music", 5, 5), Text("long", 101, 101)},
     bio : {Text("bio", 20, 20), Text("bio", 1000, 1000), Text("bio", 1001, 1001),
            Blank(2)}]

complete_profile ==
    /\ pc = "idle"
    /\ \E body \in CompleteProfileBodies :
        \E login \in Relevant(LoginOutcomes,
                LAMBDA o : complete_profile_handler(body, today,
                               o, CHOOSE u \in UpsertOutcomes : TRUE).calls) :
        \E upsert \in (IF login_with_user_id(login).ok THEN UpsertOutcomes
                        ELSE {CHOOSE u \in UpsertOutcomes : TRUE}) :
        \E r \in {complete_profile_handler(body, today, login, upsert)} :
              /\ req' = [handler |-> "complete_profile", body |-> body]
              /\ resp' = r.resp
              /\ calls' = r.calls
    /\ pc' = "done"
    /\ served' = served + 1
    /\ UNCHANGED <<fsops, fs, today, env, workers, db>>

(***************************************************************************)
(* The requests' Authorization headers.                                    *)
(***************************************************************************)
\* Base64 runs: a payload naming u1 that both decoders read, one naming u2
\* that needs the URL-safe alphabet, padded ones that only STANDARD reads,
\* payloads that are no identity, and text that is no base64.
GoodRuns ==
    {Run("sub_u1", "alnum", 0, 0), Run("sub_u2", "url", 0, 2),
     Run("sub_u1", "std", 1, 3), Run("sub_u2", "alnum", 2, 2)}

BadRuns ==
    {Run("sub_bad", "alnum", 0, 0), Run("sub_num", "alnum", 0, 3),
     Run("no_sub", "url", 0, 2), Run("not_json", "alnum", 0, 0),
     Run("not_utf8", "std", 0, 0), Run("sub_u1", "junk", 0, 0),
     Run("sub_u1", "alnum", 0, 1), Run("sub_u2", "url", 1, 3),
     Run("sub_u1", "std", 0, 3)}

\* Segments for the header and signature positions of a token.
EdgeSegs == {<<>>, <<Run("sub_u1", "alnum", 0, 0)>>, <<Run("sub_u2", "junk", 0, 0)>>}

\* Segments for the second position.
MiddleSegs ==
    EdgeSegs \cup {<<r>> : r \in GoodRuns \cup BadRuns}
             \cup {<<Run("sub_u1", "alnum", 0, 0), Run("sub_u1", "alnum", 0, 0)>>,
                   <<Run("sub_u1", "alnum", 0, 0), SP, Run("sub_u1", "alnum", 0, 0)>>}

\* Tokens of 1 to MaxSegments dot-separated segments.
Tokens ==
    UNION {{JoinWith([i \in 1..n |-> IF i = 2 THEN m ELSE e[i]], DOT) :
               m \in MiddleSegs, e \in [1..n -> EdgeSegs]} : n \in 1..MaxSegments}

HeaderPrefixes ==
    {<<BEARER>>, <<BEARER, BEARER>>, <<BEARER, SP>>, <<>>, <<SP, BEARER>>,
     <<Sym("bearer ")>>}

AllHeaders ==
    {Header(FALSE, FALSE, <<>>), Header(TRUE, FALSE, <<>>)}
    \cup {Header(TRUE, TRUE, pre \o t \o post) :
            pre \in HeaderPrefixes, t \in Tokens, post \in {<<>>, <<SP>>}}

\* A header that carries the identity of user u; and two that carry none.
BearerOf(u) ==
    Header(TRUE, TRUE,
           <<BEARER>> \o JoinWith(<<<<>>, <<Run(IF u = "u1" THEN "sub_u1" ELSE "sub_u2",
                                                "alnum", 0, 0)>>, <<>>>>, DOT))

FewHeaders ==
    {BearerOf(u) : u \in Users}
    \cup {Header(FALSE, FALSE, <<>>),
          Header(TRUE, TRUE, <<BEARER, Run("sub_bad", "alnum", 0, 0)>>)}

(***************************************************************************)
(* Outcomes of a BaaS call.  kind: "transport" the request failed,         *)
(* "status" a non-success status, "malformed" a body that does not parse,  *)
(* "empty" an empty array, "row" an array whose first row has an id that   *)
(* is well formed ("ok"), absent ("no_id") or ill formed ("bad_id").       *)
(***************************************************************************)
Outcome(kind, row) == [kind |-> kind, row |-> row]

RowOutcomes ==
    {Outcome(k, "") : k \in {"transport", "status", "malformed", "empty"}}
    \cup {Outcome("row", r) : r \in {"ok", "no_id", "bad_id"}}

InternalError(msg) == ApiResponse(500, "error", msg, NoData)

Handled(resp_, calls_, fsops_, fs_) ==
    [resp |-> resp_, calls |-> calls_, fsops |-> fsops_, fs |-> fs_]

(***************************************************************************)
(* GET /api/profile: get_user_profile and get_current_profile.             *)
(***************************************************************************)
\* get_user_profile_data: Ok(Some), Ok(None) or Err.
get_user_profile_data(out) ==
    IF out.kind \in {"transport", "status", "malformed"} THEN "err"
    ELSE IF out.kind = "empty" THEN "none" ELSE "some"

get_user_profile_handler(user_id, out, files) ==
    LET call == Call("get_profile_rows", [id |-> user_id], out)
        r == get_user_profile_data(out)
    IN  IF r = "some"
        THEN Handled(ApiResponse(200, "success", "Profile retrieved successfully",
                                 [null |-> FALSE, user_id |-> user_id]),
                     <<call>>, <<>>, files)
        ELSE IF r = "none"
        THEN Handled(ApiResponse(200, "success", "No profile found", NoData),
                     <<call>>, <<>>, files)
        ELSE Handled(InternalError("Failed to retrieve profile"), <<call>>, <<>>, files)

\* AuthService::get_user_profile with an empty array reported as an error.
get_user_profile_none_is_err(out) ==
    IF out.kind = "row" /\ out.row = "ok" THEN "some" ELSE "err"

\* AuthService::get_user_profile: a row without a well-formed id is an error.
get_user_profile(out) ==
    IF out.kind = "empty" THEN "none"
    ELSE IF out.kind = "row" /\ out.row = "ok" THEN "some" ELSE "err"

get_current_profile_handler(user_id, out, files) ==
    LET call == Call("get_profile", [id |-> user_id], out)
        r == get_user_profile(out)
    IN  IF r = "some"
        THEN Handled(ApiResponse(200, "success", "Profile retrieved successfully",
                                 [null |-> FALSE, user_id |-> user_id]),
                     <<call>>, <<>>, files)
        ELSE IF r = "none"
        THEN Handled(ApiResponse(404, "error",
                         "Profile not found. Please complete your profile first.",
                         NoData),
                     <<call>>, <<>>, files)
        ELSE Handled(InternalError("Failed to retrieve profile"), <<call>>, <<>>, files)

(***************************************************************************)
(* PUT /api/profile: update_user_profile.                                  *)
(***************************************************************************)
\* The three formats with the month-first one tried before the day-first.
ParseDobFlexible_month_first(s) ==
    LET iso == parse_from_str(s, "%Y-%m-%d")
        mdy == parse_from_str(s, "%m/%d/%Y")
    IN  IF iso.ok THEN iso ELSE IF mdy.ok THEN mdy ELSE parse_from_str(s, "%d/%m/%Y")

\* "%Y-%m-%d", then "%d/%m/%Y", then "%m/%d/%Y".
ParseDobFlexible(s) ==
    LET iso == parse_from_str(s, "%Y-%m-%d")
        dmy == parse_from_str(s, "%d/%m/%Y")
    IN  IF iso.ok THEN iso ELSE IF dmy.ok THEN dmy ELSE parse_from_str(s, "%m/%d/%Y")

\* str::trim() of a body string.
TrimText(t) == IF t.blank THEN Blank(0) ELSE t

\* The date_of_birth of upsert_profile_data's JSON: null for an empty string.
JsonDate(s) ==
    IF s = <<>> THEN [null |-> TRUE, text |-> <<>>] ELSE [null |-> FALSE, text |-> s]

\* upsert_profile_data: the stored row, when the BaaS returns one with an id.
upsert_profile_data(out) == [ok |-> out.kind = "row" /\ out.row = "ok"]

update_user_profile_handler(user_id, body, out, files) ==
    LET parsed == ParseDobFlexible(body.date_of_birth)
        iso_date == IF DateStrIsBlank(body.date_of_birth) THEN <<>>
                    ELSE FormatIso(parsed.date)
        payload == [id |-> user_id,
                    date_of_birth |-> JsonDate(iso_date),
                    primary_skill |-> TrimText(body.primary_skill),
                    skill_to_learn |-> TrimText(body.skill_to_learn),
                    bio |-> TrimText(body.bio)]
        call == Call("upsert_profile_row", payload, out)
    IN  IF TrimIsEmpty(body.primary_skill)
        THEN Handled(BadRequest("Primary skill is required"), <<>>, <<>>, files)
        ELSE IF TrimIsEmpty(body.skill_to_learn)
        THEN Handled(BadRequest("Skill to learn is required"), <<>>, <<>>, files)
        ELSE IF ~DateStrIsBlank(body.date_of_birth) /\ ~parsed.ok
        THEN Handled(BadRequest("Invalid date format. Use YYYY-MM-DD"), <<>>, <<>>, files)
        ELSE IF upsert_profile_data(out).ok
        THEN Handled(ApiResponse(200, "success", "Profile updated successfully",
                                 [null |-> FALSE, user_id |-> user_id]),
                     <<call>>, <<>>, files)
        ELSE Handled(InternalError("Failed to update profile"), <<call>>, <<>>, files)

UpdateProfileBodies ==
    [date_of_birth : {<<>>, <<Ch(" ")>>, <<Ch("x")>>,
                      <<Num(31, 2), Ch("/"), Num(2, 2), Ch("/"), Num(2000, 4)>>,
                      <<Num(1990, 4), Ch("-"), Num(6, 2), Ch("-"), Num(15, 2)>>,
                      <<Num(1, 2), Ch("/"), Num(2, 2), Ch("/"), Num(2000, 4)>>,
                      <<Num(6, 2), Ch("/"), Num(15, 2), Ch("/"), Num(1990, 4)>>},
     primary_skill : {Text("Music", 5, 5), Blank(1)},
     skill_to_learn : {Text("Art", 3, 3), Text("Music", 5, 5), Blank(0)},
     bio : {Text("bio", 20, 20)}]

(***************************************************************************)
(* POST /api/posts: create_post.                                           *)
(***************************************************************************)
\* PostRepository::create_post: the first row of the returned array.
create_post_repo(out) == [ok |-> out.kind = "row"]

\* create_post with the insert sent a second time after a failure.
create_post_handler_retrying(user_id, body, out, files) ==
    LET call == Call("insert_post", [user_id |-> user_id, content |-> body.content], out)
    IN  IF create_post_repo(out).ok
        THEN Handled(ApiResponse(200, "success", "Post created successfully",
                                 [null |-> FALSE, user_id |-> user_id]),
                     <<call>>, <<>>, files)
        ELSE Handled(InternalError("Failed to create post"), <<call, call>>, <<>>, files)

create_post_handler(user_id, body, out, files) ==
    LET call == Call("insert_post", [user_id |-> user_id, content |-> body.content], out)
    IN  IF create_post_repo(out).ok
        THEN Handled(ApiResponse(200, "success", "Post created successfully",
                                 [null |-> FALSE, user_id |-> user_id]),
                     <<call>>, <<>>, files)
        ELSE Handled(InternalError("Failed to create post"), <<call>>, <<>>, files)

CreatePostBodies == [content : {Text("hello", 5, 5), Blank(0)}]

(***************************************************************************)
(* Local storage.  A file name is a sequence of pieces of text, "." being  *)
(* a piece of its own; a path is a sequence of names.  The file system is  *)
(* seen from the working directory: dir says whether                       *)
(* uploads/profile_pictures exists, files holds the files in it, and       *)
(* OutsideFiles are the files elsewhere, which no handler writes.          *)
(***************************************************************************)
UploadDir == <<<<"uploads">>, <<"profile_pictures">>>>

CurDir == <<".">>

ParentDir == <<".", ".">>

OutsideFiles == {<<<<"etc">>, <<"passwd">>>>}

FileNames(files) == {f.name : f \in files}

FileNamed(files, name) == CHOOSE f \in files : f.name = name

\* The directories that exist.
Dirs(files) ==
    {<<>>, <<<<"etc">>>>}
    \cup (IF files.dir THEN {<<<<"uploads">>>>, UploadDir} ELSE {})

\* Path resolution by the operating system: "" and "." stay, ".." goes to the
\* parent; every step starts from an existing directory.
RECURSIVE Resolve(_, _, _)
Resolve(files, cur, path) ==
    IF path = <<>> THEN [ok |-> TRUE, at |-> cur]
    ELSE IF cur \notin Dirs(files) THEN [ok |-> FALSE, at |-> cur]
    ELSE IF Head(path) \in {<<>>, CurDir} THEN Resolve(files, cur, Tail(path))
    ELSE IF Head(path) = ParentDir
         THEN Resolve(files, IF cur = <<>> THEN cur ELSE Front(cur), Tail(path))
    ELSE Resolve(files, Append(cur, Head(path)), Tail(path))

\* std::fs::read: the bytes of the file the path resolves to.
fs_read(files, path) ==
    LET r == Resolve(files, <<>>, path)
    IN  IF ~r.ok THEN [ok |-> FALSE, at |-> r.at, bytes |-> ""]
        ELSE IF r.at \in OutsideFiles THEN [ok |-> TRUE, at |-> r.at, bytes |-> "secret"]
        ELSE IF /\ Len(r.at) = 3 /\ SubSeq(r.at, 1, 2) = UploadDir /\ files.dir
                /\ r.at[3] \in FileNames(files.files)
        THEN [ok |-> TRUE, at |-> r.at, bytes |-> FileNamed(files.files, r.at[3]).bytes]
        ELSE [ok |-> FALSE, at |-> r.at, bytes |-> ""]

\* std::fs::write after create_dir_all: the file holds exactly the new bytes.
fs_write(files, name, bytes) ==
    [dir |-> TRUE,
     files |-> {f \in files.files : f.name # name} \cup {[name |-> name, bytes |-> bytes]}]

\* std::fs::remove_file
fs_remove(files, name) == [files EXCEPT !.files = {f \in @ : f.name # name}]

\* An operation on local storage: the path given to the operating system and,
\* for a read that succeeded, the file it resolved to.
FsOp(op, path, at) == [op |-> op, path |-> path, at |-> at]

(***************************************************************************)
(* POST /api/profile-picture/upload and /skip.                             *)
(***************************************************************************)
AllowedTypes == {"image/jpeg", "image/jpg", "image/png", "image/gif", "image/webp"}

\* The allow-list with image/bmp let in.
content_type_allowed_bmp(content_type) == content_type \in AllowedTypes \cup {"image/bmp"}

content_type_allowed(content_type) == content_type \in AllowedTypes

\* image_data is a sequence of comma-separated parts; a part is base64 text
\* of some bytes, or text that STANDARD does not decode.
Part(b64, bytes) == [b64 |-> b64, bytes |-> bytes]

\* The data-URL prefix is dropped: the part after the first comma is taken.
base64_data(image_data) == IF Len(image_data) > 1 THEN image_data[2] ELSE image_data[1]

\* The extension with every content type sent to the fallback.
ExtensionOf_fallback_only(content_type) == "jpg"

ExtensionOf(content_type) ==
    CASE content_type \in {"image/jpeg", "image/jpg"} -> "jpg"
      [] content_type = "image/png" -> "png"
      [] content_type = "image/gif" -> "gif"
      [] content_type = "image/webp" -> "webp"
      [] OTHER -> "jpg"

\* format!("{}_profile.{}", user_id, extension)
ProfileFileName(user_id, extension) == <<user_id, "_profile", ".", extension>>

\* AuthService::update_profile_picture: Ok on a success status.
update_profile_picture(out) == [ok |-> out.kind \notin {"transport", "status"}]

\* disk says what local storage does: "ok", "mkdir_fail", "write_fail" (the
\* file is left as it was) or "write_cut" (the file is left truncated).
upload_profile_picture_handler(user_id, body, disk, out, files) ==
    LET data == base64_data(body.image_data)
        filename == ProfileFileName(user_id, ExtensionOf(body.content_type))
        file_path == Append(UploadDir, filename)
        public_url == <<<<"api">>>> \o UploadDir \o <<filename>>
        mkdir == FsOp("create_dir_all", UploadDir, UploadDir)
        write == FsOp("write", file_path, file_path)
        remove == FsOp("remove_file", file_path, file_path)
        made == [files EXCEPT !.dir = TRUE]
        call == Call("patch_profile_picture",
                     [id |-> user_id, profile_picture_url |-> public_url], out)
    IN  IF ~content_type_allowed(body.content_type)
        THEN Handled(BadRequest(
                       "Invalid file type. Only JPEG, PNG, GIF, and WEBP are allowed."),
                     <<>>, <<>>, files)
        ELSE IF ~data.b64
        THEN Handled(BadRequest("Invalid base64 image data"), <<>>, <<>>, files)
        ELSE IF disk = "mkdir_fail"
        THEN Handled(InternalError("Failed to prepare file storage"),
                     <<>>, <<mkdir>>, files)
        ELSE IF disk = "write_fail"
        THEN Handled(InternalError("Failed to save profile picture"),
                     <<>>, <<mkdir, write>>, made)
        ELSE IF disk = "write_cut"
        THEN Handled(InternalError("Failed to save profile picture"),
                     <<>>, <<mkdir, write>>, fs_write(made, filename, "cut"))
        ELSE IF update_profile_picture(out).ok
        THEN Handled(ApiResponse(200, "success", "Profile picture uploaded",
                                 [null |-> FALSE, profile_picture_url |-> public_url]),
                     <<call>>, <<mkdir, write>>, fs_write(made, filename, data.bytes))
        ELSE Handled(InternalError("Failed to save profile picture information"),
                     <<call>>, <<mkdir, write, remove>>,
                     fs_remove(fs_write(made, filename, data.bytes), filename))

ContentTypes == AllowedTypes \cup {"image/bmp", "IMAGE/PNG", ""}

ImageDatas ==
    {<<Part(TRUE, "imgA")>>, <<Part(FALSE, "")>>,
     <<Part(TRUE, "imgA"), Part(FALSE, "")>>,
     <<Part(FALSE, ""), Part(TRUE, "imgB"), Part(FALSE, "")>>}

UploadBodies ==
    [image_data : ImageDatas,
     file_name : {<<"me", ".", "png">>, <<".", ".", "/", "evil", ".", "gif">>},
     content_type : ContentTypes]

DiskOutcomes == {"ok", "mkdir_fail", "write_fail", "write_cut"}

PatchOutcomes == {Outcome(k, "") : k \in {"ok", "transport", "status"}}

skip_profile_picture_handler(files) ==
    Handled(ApiResponse(200, "success", "Profile setup completed",
                        [null |-> FALSE, next_step |-> "dashboard"]),
            <<>>, <<>>, files)

(***************************************************************************)
(* GET /api/uploads/profile_pictures/{filename}.                           *)
(***************************************************************************)
\* Path::new(filename).file_name(): the last component, when it is a normal
\* one; empty components and "." are skipped.
file_name(filename) ==
    LET comps == SelectSeq(filename, LAMBDA c : c \notin {<<>>, CurDir})
    IN  IF comps = <<>> \/ Last(comps) = ParentDir
        THEN [some |-> FALSE, name |-> <<>>]
        ELSE [some |-> TRUE, name |-> Last(comps)]

\* The requested filename taken as it is.
raw_filename(filename) == filename

\* The sanitised filename, as the path below the upload directory.
safe_filename(filename) ==
    IF file_name(filename).some THEN <<file_name(filename).name>> ELSE <<<<"invalid">>>>

\* Path::extension(): the text after the last ".", unless the name starts
\* with its only ".".
extension(name) ==
    LET dots == {i \in 1..Len(name) : name[i] = "."}
        last == CHOOSE i \in dots : \A j \in dots : j <= i
    IN  IF dots = {} \/ last = 1 \/ Len(name) # last + 1 THEN ""
        ELSE name[Len(name)]

ContentTypeOf(ext) ==
    CASE ext \in {"jpg", "jpeg"} -> "image/jpeg"
      [] ext = "png" -> "image/png"
      [] ext = "gif" -> "image/gif"
      [] ext = "webp" -> "image/webp"
      [] OTHER -> "application/octet-stream"

FileResponse(content_type, bytes) ==
    [code |-> 200, kind |-> "bytes", fields |-> {}, status |-> content_type,
     message |-> bytes, data |-> NoData]

NotFoundJson ==
    [code |-> 404, kind |-> "json", fields |-> {"status", "message"},
     status |-> "error", message |-> "Profile picture not found", data |-> NoData]

serve_profile_picture_handler(filename, files) ==
    LET safe == safe_filename(filename)
        file_path == UploadDir \o safe
        r == fs_read(files, file_path)
    IN  IF r.ok
        THEN Handled(FileResponse(ContentTypeOf(extension(Last(safe))), r.bytes),
                     <<>>, <<FsOp("read", file_path, r.at)>>, files)
        ELSE Handled(NotFoundJson, <<>>, <<FsOp("read", file_path, <<>>)>>, files)

PathNames ==
    {<<>>, CurDir, ParentDir, <<"etc">>, <<"passwd">>,
     ProfileFileName("u1", "jpg"), ProfileFileName("u2", "png")}

ServeFilenames == SeqsUpTo(PathNames, MaxPathSegs) \ {<<>>}

(***************************************************************************)
(* GET /api/posts: list_posts.                                             *)
(*                                                                         *)
(* The BaaS holds a table of posts, each with the profile the embed joins  *)
(* to it.  A string of a row is "" when null and " " when blank.  The      *)
(* answer to a query is a transport error, or a status with a body; long   *)
(* says that the body has more than 500 bytes and boundary that its byte   *)
(* 500 starts a character.                                                 *)
(***************************************************************************)
SliceLimit == 500

NoProfile == [some |-> FALSE, full_name |-> "", role |-> "", primary_skill |-> "",
              profile_picture_url |-> ""]

Profile(full_name, role, primary_skill, profile_picture_url) ==
    [some |-> TRUE, full_name |-> full_name, role |-> role,
     primary_skill |-> primary_skill, profile_picture_url |-> profile_picture_url]

PostRow(id, user_id, profiles) == [id |-> id, user_id |-> user_id, profiles |-> profiles]

PostTables ==
    {<<>>,
     <<PostRow("p1", "u1", Profile("Ann", "", "Music", "pic")),
       PostRow("p2", "u2", NoProfile)>>,
     <<PostRow("p1", "u1", Profile(" ", " ", "", "")),
       PostRow("p3", "", NoProfile)>>}

Answer(mode, bytes, boundary) == [mode |-> mode, bytes |-> bytes, boundary |-> boundary]

Answers ==
    {Answer("transport", 0, TRUE)}
    \cup {Answer(m, n, b) : m \in {"status", "garbage", "rows"},
                            n \in {SliceLimit, SliceLimit + 1}, b \in BOOLEAN}

\* &body[..500] when body.len() > 500: a panic unless byte 500 starts a character.
SlicePanics(a) == a.bytes > SliceLimit /\ ~a.boundary

\* serde_json::from_str::<Vec<PostWithProfile>>: user_id must be a string.
ParsesWithProfile(a, table) ==
    a.mode = "rows" /\ \A i \in 1..Len(table) : table[i].user_id # ""

\* serde_json::from_str::<Vec<PostOut>>: user_id may be null.
ParsesPostOut(a) == a.mode = "rows"

Fetched(result, posts, calls_) == [result |-> result, posts |-> posts, calls |-> calls_]

\* PostRepository::list_posts_with_profiles
list_posts_with_profiles(table, q1, q2) ==
    LET c1 == Call("posts_embed_fkey", [limit |-> 50], q1)
        c2 == Call("posts_embed", [limit |-> 50], q2)
    IN  IF q1.mode = "transport" THEN Fetched("err", <<>>, <<c1>>)
        ELSE IF SlicePanics(q1) THEN Fetched("panic", <<>>, <<c1>>)
        ELSE IF q1.mode = "status"
        THEN IF q2.mode = "transport" THEN Fetched("err", <<>>, <<c1, c2>>)
             ELSE IF SlicePanics(q2) THEN Fetched("panic", <<>>, <<c1, c2>>)
             ELSE IF q2.mode = "status" THEN Fetched("err", <<>>, <<c1, c2>>)
             ELSE IF ~ParsesWithProfile(q2, table) THEN Fetched("err", <<>>, <<c1, c2>>)
             ELSE Fetched("ok", table, <<c1, c2>>)
        ELSE IF ~ParsesWithProfile(q1, table) THEN Fetched("err", <<>>, <<c1>>)
        ELSE Fetched("ok", table, <<c1>>)

\* PostRepository::list_posts
list_posts_plain(table, q3) ==
    LET c3 == Call("posts_plain", [limit |-> 50], q3)
    IN  IF q3.mode \in {"transport", "status"} \/ ~ParsesPostOut(q3)
        THEN Fetched("err", <<>>, <<c3>>)
        ELSE Fetched("ok", table, <<c3>>)

\* Option::filter(|s| !s.trim().is_empty()) on a string of a row.
NonBlank(x) == IF x \in {"", " "} THEN "" ELSE x

EnhancedPostOut(post, name, avatar, role, skill, is_own_post) ==
    [id |-> post.id, user_id |-> post.user_id, author_name |-> name,
     author_avatar |-> avatar, author_role |-> role,
     author_primary_skill |-> skill, is_own_post |-> is_own_post]

\* current_user_id is "" when the request is anonymous.
transform_post_with_profile(post, current_user_id) ==
    LET profile == post.profiles
        is_own_post == current_user_id # "" /\ current_user_id = post.user_id
        author_name == IF NonBlank(profile.full_name) # "" THEN profile.full_name
                       ELSE IF is_own_post THEN "You" ELSE "Anonymous User"
        role == IF NonBlank(profile.role) # "" THEN profile.role
                ELSE NonBlank(profile.primary_skill)
        author_role == IF role # "" THEN role ELSE "User"
    IN  EnhancedPostOut(post, author_name, NonBlank(profile.profile_picture_url),
                        author_role, NonBlank(profile.primary_skill), is_own_post)

\* The fallback transform comparing the two ids as plain strings.
transform_basic_post_plain_compare(post, current_user_id) ==
    LET is_own_post == current_user_id = post.user_id
    IN  EnhancedPostOut(post, IF is_own_post THEN "You" ELSE "Member", "", "User", "",
                        is_own_post)

transform_basic_post(post, current_user_id) ==
    LET is_own_post == current_user_id # "" /\ current_user_id = post.user_id
                       /\ post.user_id # ""
    IN  EnhancedPostOut(post, IF is_own_post THEN "You" ELSE "Member", "", "User", "",
                        is_own_post)

PostsResponse(message, posts) ==
    ApiResponse(200, "success", message, [null |-> FALSE, posts |-> posts])

\* The handler; panicked says that it ended in a panic, with no response.
list_posts_handler(current_user_id, table, q1, q2, q3) ==
    LET joined == list_posts_with_profiles(table, q1, q2)
        plain == list_posts_plain(table, q3)
    IN  IF joined.result = "panic"
        THEN [resp |-> NoResponse, calls |-> joined.calls, panicked |-> TRUE]
        ELSE IF joined.result = "ok"
        THEN [resp |-> PostsResponse("Posts retrieved successfully",
                         [i \in 1..Len(joined.posts) |->
                             transform_post_with_profile(joined.posts[i], current_user_id)]),
              calls |-> joined.calls, panicked |-> FALSE]
        ELSE IF plain.result = "ok"
        THEN [resp |-> PostsResponse("Posts retrieved successfully (basic mode)",
                         [i \in 1..Len(plain.posts) |->
                             transform_basic_post(plain.posts[i], current_user_id)]),
              calls |-> joined.calls \o plain.calls, panicked |-> FALSE]
        ELSE [resp |-> InternalError("Failed to retrieve posts"),
              calls |-> joined.calls \o plain.calls, panicked |-> FALSE]

list_posts ==
    /\ pc = "idle"
    /\ \E hdr \in FewHeaders, table \in PostTables, q1 \in Answers, q2 \in Answers,
          q3 \in Answers :
        \E auth \in {from_request(hdr)} :
        \E r \in {list_posts_handler(auth.user_id, table, q1, q2, q3)} :
              /\ req' = [handler |-> "list_posts", header |-> hdr,
                         user_id |-> auth.user_id, table |-> table,
                         q1 |-> q1, q2 |-> q2, q3 |-> q3]
              /\ resp' = r.resp
              /\ calls' = r.calls
              /\ pc' = IF r.panicked THEN "panic" ELSE "done"
    /\ served' = served + 1
    /\ UNCHANGED <<fsops, fs, today, env, workers, db>>

(***************************************************************************)
(* The routes that require a bearer token.  A request is rejected by the   *)
(* extractor before the handler's body; headers and bodies are the sets    *)
(* the requests are drawn from.                                            *)
(***************************************************************************)
Rejected(auth) == Handled(auth.reject, <<>>, <<>>, fs)

\* The request is answered: what it was, and what the handler did.
Respond(handler, hdr, auth, body, r) ==
    /\ req' = [handler |-> handler, header |-> hdr, user_id |-> auth.user_id,
               body |-> body, files |-> fs]
    /\ resp' = r.resp
    /\ calls' = r.calls
    /\ fsops' = r.fsops
    /\ fs' = r.fs
    /\ pc' = "done"
    /\ served' = served + 1
    /\ UNCHANGED <<today, env, workers, db>>

\* The bodies worth drawing: all of them for a request that is let in.
BodiesFor(auth, bodies) == IF auth.ok THEN bodies ELSE {CHOOSE b \in bodies : TRUE}

get_user_profile_route(headers) ==
    /\ pc = "idle"
    /\ \E hdr \in headers :
       \E auth \in {from_request(hdr)} :
       \E out \in BodiesFor(auth, RowOutcomes) :
       \E r \in {IF auth.ok THEN get_user_profile_handler(auth.user_id, out, fs)
                 ELSE Rejected(auth)} :
           Respond("get_user_profile", hdr, auth, NoData, r)

get_current_profile_route(headers) ==
    /\ pc = "idle"
    /\ \E hdr \in headers :
       \E auth \in {from_request(hdr)} :
       \E out \in BodiesFor(auth, RowOutcomes) :
       \E r \in {IF auth.ok THEN get_current_profile_handler(auth.user_id, out, fs)
                 ELSE Rejected(auth)} :
           Respond("get_current_profile", hdr, auth, NoData, r)

update_user_profile_route(headers) ==
    /\ pc = "idle"
    /\ \E hdr \in headers :
       \E auth \in {from_request(hdr)} :
       \E body \in BodiesFor(auth, UpdateProfileBodies) :
       \E out \in BodiesFor(auth, RowOutcomes) :
       \E r \in {IF auth.ok
                 THEN update_user_profile_handler(auth.user_id, body, out, fs)
                 ELSE Rejected(auth)} :
           Respond("update_user_profile", hdr, auth, body, r)

create_post_route(headers) ==
    /\ pc = "idle"
    /\ \E hdr \in headers :
       \E auth \in {from_request(hdr)} :
       \E body \in BodiesFor(auth, CreatePostBodies) :
       \E out \in BodiesFor(auth, RowOutcomes) :
       \E r \in {IF auth.ok THEN create_post_handler(auth.user_id, body, out, fs)
                 ELSE Rejected(auth)} :
           Respond("create_post", hdr, auth, body, r)

upload_profile_picture_route(headers, bodies) ==
    /\ pc = "idle"
    /\ \E hdr \in headers :
       \E auth \in {from_request(hdr)} :
       \E body \in BodiesFor(auth, bodies) :
       \E disk \in BodiesFor(auth, DiskOutcomes) :
       \E out \in BodiesFor([ok |-> auth.ok /\ disk = "ok"], PatchOutcomes) :
       \E r \in {IF auth.ok
                 THEN upload_profile_picture_handler(auth.user_id, body, disk, out, fs)
                 ELSE Rejected(auth)} :
           Respond("upload_profile_picture", hdr, auth, body, r)

skip_profile_picture_route(headers) ==
    /\ pc = "idle"
    /\ \E hdr \in headers :
       \E auth \in {from_request(hdr)} :
       \E r \in {IF auth.ok THEN skip_profile_picture_handler(fs) ELSE Rejected(auth)} :
           Respond("skip_profile_picture", hdr, auth, NoData, r)

\* The public route of the pictures.
serve_profile_picture ==
    /\ pc = "idle"
    /\ \E filename \in ServeFilenames :
       \E r \in {serve_profile_picture_handler(filename, fs)} :
           Respond("serve_profile_picture", Header(FALSE, FALSE, <<>>),
                   [ok |-> FALSE, user_id |-> "", reject |-> NoResponse],
                   [filename |-> filename], r)

\* The server goes on to the next request; storage stays.
NextRequest ==
    /\ pc = "done"
    /\ served < MaxRequests
    /\ pc' = "idle"
    /\ req' = [handler |-> "none"]
    /\ resp' = NoResponse
    /\ calls' = <<>>
    /\ fsops' = <<>>
    /\ UNCHANGED <<fs, today, served, env, workers, db>>

\* The uploads of the storage scenarios: two allowed types and the others.
PictureBodies ==
    [image_data : {<<Part(TRUE, "imgA")>>, <<Part(FALSE, "")>>},
     file_name : {<<"me", ".", "png">>},
     content_type : {"image/png", "image/jpeg", "image/bmp", "IMAGE/PNG", ""}]

(***************************************************************************)
(* POST /auth/login.                                                       *)
(***************************************************************************)
\* The handler: the response and the BaaS calls it made.  The body is passed
\* to the BaaS as it came; the profile is looked up by the id of the login.
login_handler(body, login_out, profile_out) ==
    LET loginCall == Call("login", [email |-> body.email, password |-> body.password],
                          login_out)
        l == login_with_user_id(login_out)
        profileCall == Call("get_profile", [id |-> l.user_id], profile_out)
        p == get_user_profile(profile_out)
        session == [user_id |-> l.user_id]
    IN  IF ~l.ok
        THEN [resp |-> ApiResponse(401, "error", "Invalid email or password", NoData),
              calls |-> <<loginCall>>]
        ELSE IF p = "some"
        THEN [resp |-> ApiResponse(200, "success", "Login successful",
                          [null |-> FALSE, session |-> session,
                           profile |-> [user_id |-> l.user_id],
                           next_step |-> "dashboard"]),
              calls |-> <<loginCall, profileCall>>]
        ELSE IF p = "none"
        THEN [resp |-> ApiResponse(200, "success", "Profile required",
                          [null |-> FALSE, session |-> session,
                           next_step |-> "complete_profile"]),
              calls |-> <<loginCall, profileCall>>]
        ELSE [resp |-> InternalError("Failed to verify account status"),
              calls |-> <<loginCall, profileCall>>]

LoginBodies ==
    [email : {Text("a@a.aa", 6, 6), Text("b@b.bb", 6, 6), Blank(0)},
     password : {Text("pw", 6, 6), Text("bad", 3, 3), Blank(0)}]

login ==
    /\ pc = "idle"
    /\ \E body \in LoginBodies :
        \E login_out \in LoginOutcomes :
        \E profile_out \in (IF login_with_user_id(login_out).ok THEN RowOutcomes
                             ELSE {CHOOSE o \in RowOutcomes : TRUE}) :
        \E r \in {login_handler(body, login_out, profile_out)} :
              /\ req' = [handler |-> "login", body |-> body]
              /\ resp' = r.resp
              /\ calls' = r.calls
    /\ pc' = "done"
    /\ served' = served + 1
    /\ UNCHANGED <<fsops, fs, today, env, workers, db>>

(***************************************************************************)
(* GET /test/supabase: the diagnostic.                                     *)
(***************************************************************************)
\* Any answer of the BaaS is reported with its status; a request that could
\* not be sent is a 500.  Neither body is the ApiResponse struct.
test_supabase_handler(out, files) ==
    LET call == Call("probe_profiles", [limit |-> 1], out)
    IN  IF out.kind # "transport"
        THEN Handled([code |-> 200, kind |-> "json",
                      fields |-> {"status", "supabase_status", "body"},
                      status |-> "success", message |-> "", data |-> NoData],
                     <<call>>, <<>>, files)
        ELSE Handled([code |-> 500, kind |-> "json", fields |-> {"status", "message"},
                      status |-> "error", message |-> "Supabase connection failed",
                      data |-> NoData],
                     <<call>>, <<>>, files)

test_supabase ==
    /\ pc = "idle"
    /\ \E out \in RowOutcomes :
       \E r \in {test_supabase_handler(out, fs)} :
           Respond("test_supabase", Header(FALSE, FALSE, <<>>),
                   [ok |-> FALSE, user_id |-> "", reject |-> NoResponse], NoData, r)

(***************************************************************************)
(* Startup: main reads the environment and starts the server.  pc is the   *)
(* place in main: "main", "pool", "service", "bind"; then "idle" when the  *)
(* server serves, "panicked" after an expect() that failed and "exited"    *)
(* after exit(1) or an error returned from main.                           *)
(***************************************************************************)
EnvNames ==
    {"SUPABASE_URL", "SUPABASE_SERVICE_ROLE_KEY", "SUPABASE_ANON_KEY",
     "PG_HOST", "PG_USER", "PG_PASS", "PG_DB"}

\* Nothing but the place in main changes during startup.
StartupOnly == UNCHANGED <<req, resp, calls, fsops, fs, today, served, env, workers, db>>

\* env::var("SUPABASE_URL").expect(..), env::var("SUPABASE_SERVICE_ROLE_KEY").expect(..)
read_supabase_env ==
    /\ pc = "main"
    /\ pc' = IF {"SUPABASE_URL", "SUPABASE_SERVICE_ROLE_KEY"} \subseteq env
             THEN "pool" ELSE "panicked"
    /\ StartupOnly

\* config::get_pg_pool: PG_HOST, PG_USER and PG_DB with context(..)?, PG_PASS
\* with ok(); create_pool may fail too.  An Err makes main exit(1).
get_pg_pool ==
    /\ pc = "pool"
    /\ \E created \in BOOLEAN :
          pc' = IF {"PG_HOST", "PG_USER", "PG_DB"} \subseteq env /\ created
                THEN "service" ELSE "exited"
    /\ StartupOnly

\* AuthService::new_from_env: expect() on the URL and the service-role key,
\* unwrap_or_default() on SUPABASE_ANON_KEY.
new_from_env ==
    /\ pc = "service"
    /\ pc' = IF {"SUPABASE_URL", "SUPABASE_SERVICE_ROLE_KEY"} \subseteq env
             THEN "bind" ELSE "panicked"
    /\ StartupOnly

\* HttpServer::new(..).bind(..)?.run(): the server serves, or bind fails.
bind_and_run ==
    /\ pc = "bind"
    /\ \E bound \in BOOLEAN : pc' = IF bound THEN "idle" ELSE "exited"
    /\ StartupOnly

(***************************************************************************)
(* Routing.  main registers three scopes and one resource; every handler   *)
(* carries the path of its own route macro.  A URL path is a sequence of   *)
(* names, as in local storage.  An App or Scope hands a request to the     *)
(* first of its services whose path and method guard match: a scope        *)
(* matches by prefix and matches the rest of the path against its routes,  *)
(* and what it does not match is answered by the default service.          *)
(***************************************************************************)
Seg(name) == <<name>>

Route(method, pattern, handler) ==
    [method |-> method, pattern |-> pattern, handler |-> handler]

Scope(prefix, routes) == [scope |-> TRUE, prefix |-> prefix, routes |-> routes]

Resource(route) == [scope |-> FALSE, prefix |-> <<>>, routes |-> <<route>>]

\* web::scope("/auth")
AuthScope ==
    Scope(<<Seg("auth")>>,
          <<Route("POST", <<Seg("auth"), Seg("signup")>>, "signup"),
            Route("POST", <<Seg("auth"), Seg("complete-profile")>>, "complete_profile"),
            Route("POST", <<Seg("auth"), Seg("login")>>, "login")>>)

\* web::scope("/api")
ApiScope ==
    Scope(<<Seg("api")>>,
          <<Route("GET", <<Seg("api"), Seg("skills")>>, "get_skills"),
            Route("GET", <<Seg("api"), Seg("profile")>>, "get_user_profile"),
            Route("PUT", <<Seg("api"), Seg("profile")>>, "update_user_profile"),
            Route("GET", <<Seg("api"), Seg("profile")>>, "get_current_profile"),
            Route("POST", <<Seg("posts")>>, "create_post"),
            Route("GET", <<Seg("posts")>>, "list_posts")>>)

\* web::scope("/api/profile-picture")
PictureScope ==
    Scope(<<Seg("api"), Seg("profile-picture")>>,
          <<Route("POST", <<Seg("api"), Seg("profile-picture"), Seg("upload")>>,
                  "upload_profile_picture"),
            Route("POST", <<Seg("api"), Seg("profile-picture"), Seg("skip")>>,
                  "skip_profile_picture"),
            Route("GET", <<Seg("api"), Seg("uploads"), Seg("profile_pictures"),
                           Seg("{filename}")>>, "serve_profile_picture")>>)

\* App::new().service(..) in the order of main.
AppServices ==
    <<AuthScope, ApiScope, PictureScope,
      Resource(Route("GET", <<Seg("test"), Seg("supabase")>>, "test_supabase"))>>

\* A pattern matches a path of its length, a {parameter} matching any name.
PatternMatches(pattern, path) ==
    /\ Len(pattern) = Len(path)
    /\ \A i \in 1..Len(pattern) : pattern[i] = Seg("{filename}") \/ pattern[i] = path[i]

IsPrefix(prefix, path) ==
    Len(prefix) <= Len(path) /\ SubSeq(path, 1, Len(prefix)) = prefix

\* The first route whose pattern and method guard match; else the default.
RECURSIVE FirstRoute(_, _, _)
FirstRoute(routes, method, path) ==
    IF routes = <<>> THEN "default"
    ELSE IF Head(routes).method = method /\ PatternMatches(Head(routes).pattern, path)
    THEN Head(routes).handler
    ELSE FirstRoute(Tail(routes), method, path)

\* The handler a request is dispatched to.
RECURSIVE Dispatch(_, _, _)
Dispatch(services, method, path) ==
    IF services = <<>> THEN "default"
    ELSE LET s == Head(services)
         IN  IF s.scope
             THEN IF IsPrefix(s.prefix, path)
                  THEN FirstRoute(s.routes, method,
                                  SubSeq(path, Len(s.prefix) + 1, Len(path)))
                  ELSE Dispatch(Tail(services), method, path)
             ELSE IF FirstRoute(s.routes, method, path) # "default"
                  THEN FirstRoute(s.routes, method, path)
                  ELSE Dispatch(Tail(services), method, path)

\* The default service: 404 with an empty body.
NotFoundDefault ==
    [code |-> 404, kind |-> "empty", fields |-> {},
     status |-> "", message |-> "", data |-> NoData]

\* GET /api/skills
get_skills_handler(files) ==
    Handled(ApiResponse(200, "success", "Skills retrieved successfully",
                        [null |-> FALSE, skills |-> VALID_SKILLS,
                         total |-> Cardinality(VALID_SKILLS)]),
            <<>>, <<>>, files)

(***************************************************************************)
(* A request to the server: dispatched, then handled.                      *)
(***************************************************************************)
\* What the handler did with the body it was given.
Ran(body, r, panicked) ==
    [body |-> body, resp |-> r.resp, calls |-> r.calls, fsops |-> r.fsops, fs |-> r.fs,
     panicked |-> panicked]

\* A handler that does not touch local storage.
NoStorage(r, files) == Handled(r.resp, r.calls, <<>>, files)

\* A handler behind the AuthenticatedUser extractor.
Guarded(auth, r, files) == IF auth.ok THEN r ELSE Handled(auth.reject, <<>>, <<>>, files)

\* The bodies and BaaS answers the routed requests are drawn from.
RoutedSignupBodies ==
    [email : {<<"a", "@", "a", ".", "a", "a">>, <<"a">>}, password : {Text("pw", 6, 6)}]

RoutedProfileBodies ==
    [email : {Text("a@a.aa", 6, 6)}, password : {Text("pw", 6, 6)},
     date_of_birth : {<<Num(15, 2), Ch("/"), Num(6, 2), Ch("/"), Num(1990, 4)>>},
     primary_skill : {Text("Music", 5, 5)},
     skill_to_learn : {Text("Art", 3, 3), Text("Music", 5, 5)},
     bio : {Text("bio", 20, 20)}]

RoutedLoginBodies == [email : {Text("a@a.aa", 6, 6)}, password : {Text("pw", 6, 6)}]

RoutedUpdateBodies ==
    [date_of_birth : {<<>>}, primary_skill : {Text("Music", 5, 5), Blank(1)},
     skill_to_learn : {Text("Art", 3, 3)}, bio : {Text("bio", 20, 20)}]

RoutedAnswers ==
    {Answer("transport", 0, TRUE), Answer("rows", SliceLimit, TRUE),
     Answer("status", SliceLimit + 1, FALSE)}

RoutedUploads ==
    [image_data : {<<Part(TRUE, "imgA")>>}, file_name : {<<"me", ".", "png">>},
     content_type : {"image/png", "image/bmp"}]

\* Every way the handler h can deal with a request that carries auth.
HandlerRuns(h, path, auth, files, now) ==
    CASE h = "signup" ->
           {Ran(b, NoStorage(signup_handler(b, o), files), FALSE) :
               b \in RoutedSignupBodies, o \in SignupOutcomes}
      [] h = "complete_profile" ->
           {Ran(b, NoStorage(complete_profile_handler(b, now, l, u), files), FALSE) :
               b \in RoutedProfileBodies, l \in LoginOutcomes, u \in UpsertOutcomes}
      [] h = "login" ->
           {Ran(b, NoStorage(login_handler(b, l, p), files), FALSE) :
               b \in RoutedLoginBodies, l \in LoginOutcomes, p \in RowOutcomes}
      [] h = "get_skills" -> {Ran(NoData, get_skills_handler(files), FALSE)}
      [] h = "get_user_profile" ->
           {Ran(NoData, Guarded(auth, get_user_profile_handler(auth.user_id, o, files),
                                files), FALSE) : o \in RowOutcomes}
      [] h = "get_current_profile" ->
           {Ran(NoData, Guarded(auth, get_current_profile_handler(auth.user_id, o, files),
                                files), FALSE) : o \in RowOutcomes}
      [] h = "update_user_profile" ->
           {Ran(b, Guarded(auth, update_user_profile_handler(auth.user_id, b, o, files),
                           files), FALSE) : b \in RoutedUpdateBodies, o \in RowOutcomes}
      [] h = "create_post" ->
           {Ran(b, Guarded(auth, create_post_handler(auth.user_id, b, o, files), files),
                FALSE) : b \in CreatePostBodies, o \in RowOutcomes}
      [] h = "list_posts" ->
           {LET r == list_posts_handler(auth.user_id, t, q1, q2, q3)
            IN  Ran([table |-> t, q1 |-> q1, q2 |-> q2, q3 |-> q3],
                    NoStorage(r, files), r.panicked) :
               t \in PostTables, q1 \in RoutedAnswers, q2 \in RoutedAnswers,
               q3 \in RoutedAnswers}
      [] h = "upload_profile_picture" ->
           {Ran(b, Guarded(auth, upload_profile_picture_handler(auth.user_id, b, d, o,
                                                                 files), files), FALSE) :
               b \in RoutedUploads, d \in DiskOutcomes, o \in PatchOutcomes}
      [] h = "skip_profile_picture" ->
           {Ran(NoData, Guarded(auth, skip_profile_picture_handler(files), files), FALSE)}
      [] h = "serve_profile_picture" ->
           {Ran([filename |-> <<Last(path)>>],
                serve_profile_picture_handler(<<Last(path)>>, files), FALSE)}
      [] h = "test_supabase" ->
           {Ran(NoData, test_supabase_handler(o, files), FALSE) : o \in RowOutcomes}
      [] OTHER -> {Ran(NoData, Handled(NotFoundDefault, <<>>, <<>>, files), FALSE)}

Methods == {"GET", "POST", "PUT"}

\* The paths of the interface, and the paths the registration of main gives
\* the handlers.
RequestPaths ==
    {<<Seg("auth"), Seg("signup")>>, <<Seg("auth"), Seg("complete-profile")>>,
     <<Seg("auth"), Seg("login")>>,
     <<Seg("auth"), Seg("auth"), Seg("signup")>>,
     <<Seg("auth"), Seg("auth"), Seg("complete-profile")>>,
     <<Seg("auth"), Seg("auth"), Seg("login")>>,
     <<Seg("api"), Seg("skills")>>, <<Seg("api"), Seg("api"), Seg("skills")>>,
     <<Seg("api"), Seg("profile")>>, <<Seg("api"), Seg("api"), Seg("profile")>>,
     <<Seg("api"), Seg("posts")>>, <<Seg("api"), Seg("api"), Seg("posts")>>,
     <<Seg("api"), Seg("profile-picture"), Seg("upload")>>,
     <<Seg("api"), Seg("profile-picture"), Seg("skip")>>,
     <<Seg("api"), Seg("profile-picture"), Seg("api"), Seg("profile-picture"),
       Seg("upload")>>,
     <<Seg("api"), Seg("uploads"), Seg("profile_pictures"), ProfileFileName("u1", "png")>>,
     <<Seg("api"), Seg("profile-picture"), Seg("api"), Seg("uploads"),
       Seg("profile_pictures"), ProfileFileName("u1", "png")>>,
     <<Seg("test"), Seg("supabase")>>, <<Seg("test")>>}

http_request ==
    /\ pc = "idle"
    /\ \E method \in Methods :
       \E path \in RequestPaths :
       \E hdr \in FewHeaders :
       \E h \in {Dispatch(AppServices, method, path)} :
       \E auth \in {from_request(hdr)} :
       \E run \in HandlerRuns(h, path, auth, fs, today) :
           /\ req' = [handler |-> h, method |-> method, path |-> path, header |-> hdr,
                      user_id |-> auth.user_id, body |-> run.body, files |-> fs]
           /\ resp' = run.resp
           /\ calls' = run.calls
           /\ fsops' = run.fsops
           /\ fs' = run.fs
           /\ pc' = IF run.panicked THEN "panic" ELSE "done"
    /\ served' = served + 1
    /\ UNCHANGED <<today, env, workers, db>>

\* A request that has reached handler h, whatever path led to it.
HandlerNames ==
    {"signup", "complete_profile", "login", "get_skills", "get_user_profile",
     "get_current_profile", "update_user_profile", "create_post", "list_posts",
     "upload_profile_picture", "skip_profile_picture", "serve_profile_picture",
     "test_supabase"}

handler_request ==
    /\ pc = "idle"
    /\ \E h \in HandlerNames :
       \E path \in {<<ProfileFileName("u1", "png")>>} :
       \E hdr \in FewHeaders :
       \E auth \in {from_request(hdr)} :
       \E run \in HandlerRuns(h, path, auth, fs, today) :
           /\ req' = [handler |-> h, method |-> "", path |-> path, header |-> hdr,
                      user_id |-> auth.user_id, body |-> run.body, files |-> fs]
           /\ resp' = run.resp
           /\ calls' = run.calls
           /\ fsops' = run.fsops
           /\ fs' = run.fs
           /\ pc' = IF run.panicked THEN "panic" ELSE "done"
    /\ served' = served + 1
    /\ UNCHANGED <<today, env, workers, db>>

(***************************************************************************)
(* A client that uploads a picture and then fetches the URL the upload     *)
(* returned: through the routes of main, or from the serving handler       *)
(* itself.                                                                 *)
(***************************************************************************)
UploadAnswered200 ==
    pc = "done" /\ req.handler = "upload_profile_picture" /\ resp.code = 200

Fetched200(h, path, routed, run) ==
    /\ req' = [handler |-> h, method |-> "GET", path |-> path, routed |-> routed,
               header |-> Header(FALSE, FALSE, <<>>), user_id |-> "",
               body |-> run.body, files |-> fs,
               uploaded |-> [content_type |-> req.body.content_type,
                             bytes |-> base64_data(req.body.image_data).bytes]]
    /\ resp' = run.resp
    /\ calls' = run.calls
    /\ fsops' = run.fsops
    /\ fs' = run.fs
    /\ pc' = "done"
    /\ served' = served + 1
    /\ UNCHANGED <<today, env, workers, db>>

\* GET of the returned profile_picture_url, dispatched by the App of main.
get_returned_url ==
    /\ UploadAnswered200
    /\ \E path \in {resp.data.profile_picture_url} :
       \E h \in {Dispatch(AppServices, "GET", path)} :
       \E run \in HandlerRuns(h, path, from_request(Header(FALSE, FALSE, <<>>)), fs, today) :
           Fetched200(h, path, TRUE, run)

\* The same request handed to serve_profile_picture with the {filename} of
\* the URL.
serve_returned_file ==
    /\ UploadAnswered200
    /\ \E path \in {resp.data.profile_picture_url} :
       \E run \in HandlerRuns("serve_profile_picture", path,
                              from_request(Header(FALSE, FALSE, <<>>)), fs, today) :
           Fetched200("serve_profile_picture", path, FALSE, run)

(***************************************************************************)
(* Uploads served at the same time.  HttpServer runs the handler on        *)
(* several worker threads, and a handler gives way at each await and       *)
(* between the system calls of std::fs.  A worker goes through one upload  *)
(* step by step: "idle", "create_dir_all", "create" and "write_all" (the   *)
(* two parts of std::fs::write: File::create truncates the file and        *)
(* write_all writes from its start), "patch", "remove_file", "done".       *)
(* Bytes are a sequence here.  A file removed while a worker holds it      *)
(* open is unlinked: the worker's write_all no longer shows under the      *)
(* name.  wrote and patched are the places of the worker's write and       *)
(* PATCH in the logs fsops and calls.                                      *)
(***************************************************************************)
Workers == {"w1", "w2"}

NoUrl == <<>>

IdleWorker ==
    [pc |-> "idle", user_id |-> "", content_type |-> "", bytes |-> <<>>,
     unlinked |-> FALSE, wrote |-> 0, patched |-> 0, resp |-> NoResponse]

\* The uploads of the workers: two pictures of different lengths.
WorkerUploads ==
    [image_data : {<<Part(TRUE, <<"a1", "a2">>)>>, <<Part(TRUE, <<"b1">>)>>,
                   <<Part(FALSE, <<>>)>>},
     file_name : {<<"me", ".", "png">>},
     content_type : {"image/png", "image/jpeg", "image/bmp"}]

WorkerFileName(w) == ProfileFileName(workers[w].user_id, ExtensionOf(workers[w].content_type))

WorkerFilePath(w) == Append(UploadDir, WorkerFileName(w))

\* format!("/api/uploads/profile_pictures/{}", filename)
PublicUrl(filename) == <<<<"api">>>> \o UploadDir \o <<filename>>

\* write_all on a file opened at its start: the bytes replace the first
\* bytes of the file, and what lies behind them stays.
WriteAt0(old, bytes) == bytes \o SubSeq(old, Len(bytes) + 1, Len(old))

WorkerEnds(w, r) == workers' = [workers EXCEPT ![w].pc = "done", ![w].resp = r]

WorkerOnly == UNCHANGED <<pc, req, resp, today, env>>

\* The extractor and the handler up to the file name.
upload_received ==
    \E w \in Workers :
       /\ workers[w].pc = "idle"
       /\ served < Cardinality(Workers)
       /\ \E hdr \in {BearerOf(u) : u \in Users} \cup {Header(FALSE, FALSE, <<>>)} :
          \E auth \in {from_request(hdr)} :
          \E body \in BodiesFor(auth, WorkerUploads) :
          \E data \in {base64_data(body.image_data)} :
             IF ~auth.ok THEN WorkerEnds(w, auth.reject)
             ELSE IF ~content_type_allowed(body.content_type)
             THEN WorkerEnds(w, BadRequest(
                      "Invalid file type. Only JPEG, PNG, GIF, and WEBP are allowed."))
             ELSE IF ~data.b64
             THEN WorkerEnds(w, BadRequest("Invalid base64 image data"))
             ELSE workers' = [workers EXCEPT ![w].pc = "create_dir_all",
                                             ![w].user_id = auth.user_id,
                                             ![w].content_type = body.content_type,
                                             ![w].bytes = data.bytes]
       /\ served' = served + 1
       /\ UNCHANGED <<calls, fsops, fs, db>>
       /\ WorkerOnly

\* std::fs::create_dir_all(upload_dir)
upload_create_dir_all ==
    \E w \in Workers :
       /\ workers[w].pc = "create_dir_all"
       /\ fsops' = Append(fsops, FsOp("create_dir_all", UploadDir, UploadDir))
       /\ \/ /\ fs' = [fs EXCEPT !.dir = TRUE]
             /\ workers' = [workers EXCEPT ![w].pc = "create"]
          \/ /\ ~fs.dir
             /\ fs' = fs
             /\ WorkerEnds(w, InternalError("Failed to prepare file storage"))
       /\ UNCHANGED <<calls, served, db>>
       /\ WorkerOnly

\* std::fs::write, first part: File::create makes the file or empties it.
upload_file_create ==
    \E w \in Workers :
       /\ workers[w].pc = "create"
       /\ \/ /\ fs' = fs_write(fs, WorkerFileName(w), <<>>)
             /\ workers' = [workers EXCEPT ![w].pc = "write_all", ![w].unlinked = FALSE]
          \/ /\ fs' = fs
             /\ WorkerEnds(w, InternalError("Failed to save profile picture"))
       /\ UNCHANGED <<calls, fsops, served, db>>
       /\ WorkerOnly

\* std::fs::write, second part: write_all on the open file.
upload_write_all ==
    \E w \in Workers :
       /\ workers[w].pc = "write_all"
       /\ fsops' = Append(fsops, FsOp("write", WorkerFilePath(w), WorkerFilePath(w)))
       /\ \/ /\ fs' = IF workers[w].unlinked THEN fs
                      ELSE fs_write(fs, WorkerFileName(w),
                                    WriteAt0(FileNamed(fs.files, WorkerFileName(w)).bytes,
                                             workers[w].bytes))
             /\ workers' = [workers EXCEPT ![w].pc = "patch", ![w].wrote = Len(fsops')]
          \/ /\ fs' = fs
             /\ WorkerEnds(w, InternalError("Failed to save profile picture"))
       /\ UNCHANGED <<calls, served, db>>
       /\ WorkerOnly

\* svc.update_profile_picture(user_id, Some(public_url)): the PATCH of the row.
upload_patch ==
    \E w \in Workers :
       /\ workers[w].pc = "patch"
       /\ \E out \in PatchOutcomes :
          \E url \in {PublicUrl(WorkerFileName(w))} :
             /\ calls' = Append(calls,
                           Call("patch_profile_picture",
                                [id |-> workers[w].user_id, profile_picture_url |-> url],
                                out))
             /\ IF update_profile_picture(out).ok
                THEN /\ db' = [db EXCEPT ![workers[w].user_id] = url]
                     /\ workers' = [workers EXCEPT
                           ![w].pc = "done", ![w].patched = Len(calls'),
                           ![w].resp = ApiResponse(200, "success", "Profile picture uploaded",
                                          [null |-> FALSE, profile_picture_url |-> url])]
                ELSE /\ db' = db
                     /\ workers' = [workers EXCEPT ![w].pc = "remove_file",
                                                   ![w].patched = Len(calls')]
       /\ UNCHANGED <<fsops, fs, served>>
       /\ WorkerOnly

\* The compensation: let _ = std::fs::remove_file(&file_path), then the 500.
upload_remove_file ==
    \E w \in Workers :
       /\ workers[w].pc = "remove_file"
       /\ fsops' = Append(fsops, FsOp("remove_file", WorkerFilePath(w), WorkerFilePath(w)))
       /\ fs' = fs_remove(fs, WorkerFileName(w))
       /\ workers' = [v \in Workers |->
             IF v = w
             THEN [workers[v] EXCEPT !.pc = "done",
                      !.resp = InternalError("Failed to save profile picture information")]
             ELSE IF workers[v].pc = "write_all" /\ WorkerFileName(v) = WorkerFileName(w)
             THEN [workers[v] EXCEPT !.unlinked = TRUE]
             ELSE workers[v]]
       /\ UNCHANGED <<calls, served, db>>
       /\ WorkerOnly

(***************************************************************************)
(* Initial state and the specifications.                                   *)
(***************************************************************************)
Today == Date(2026, 11, 4)

EmptyFs == [dir |-> FALSE, files |-> {}]

Init ==
    /\ pc = "idle"
    /\ req = [handler |-> "none"]
    /\ resp = NoResponse
    /\ calls = <<>>
    /\ fsops = <<>>
    /\ fs = EmptyFs
    /\ today = Today
    /\ served = 0
    /\ env = EnvNames
    /\ workers = [w \in Workers |-> IdleWorker]
    /\ db = [u \in Users |-> NoUrl]

\* The process at the start of main, in any environment.
InitMain ==
    /\ pc = "main"
    /\ req = [handler |-> "none"]
    /\ resp = NoResponse
    /\ calls = <<>>
    /\ fsops = <<>>
    /\ fs = EmptyFs
    /\ today = Today
    /\ served = 0
    /\ env \in SUBSET EnvNames
    /\ workers = [w \in Workers |-> IdleWorker]
    /\ db = [u \in Users |-> NoUrl]

SpecSignup == Init /\ [][signup]_vars

SpecProfile == Init /\ [][complete_profile]_vars

NextAuth ==
    \/ get_user_profile_route(AllHeaders)
    \/ get_current_profile_route(AllHeaders)
    \/ update_user_profile_route(AllHeaders)
    \/ create_post_route(AllHeaders)
    \/ upload_profile_picture_route(AllHeaders, UploadBodies)
    \/ skip_profile_picture_route(AllHeaders)

NextMain == read_supabase_env \/ get_pg_pool \/ new_from_env \/ bind_and_run

SpecMain == InitMain /\ [][NextMain]_vars

SpecRoutes == Init /\ [][http_request]_vars

SpecLogin == Init /\ [][login]_vars

SpecHandlers == Init /\ [][handler_request]_vars

NextRoundTrip ==
    \/ upload_profile_picture_route(FewHeaders, UploadBodies)
    \/ get_returned_url
    \/ serve_returned_file

SpecRoundTrip == Init /\ [][NextRoundTrip]_vars

NextUploads ==
    \/ upload_received
    \/ upload_create_dir_all
    \/ upload_file_create
    \/ upload_write_all
    \/ upload_patch
    \/ upload_remove_file

SpecUploads == Init /\ [][NextUploads]_vars

SpecAuth == Init /\ [][NextAuth]_vars

SpecPosts == Init /\ [][list_posts]_vars

NextPictures ==
    \/ upload_profile_picture_route(FewHeaders, PictureBodies)
    \/ skip_profile_picture_route(FewHeaders)
    \/ serve_profile_picture
    \/ test_supabase
    \/ NextRequest

SpecPictures == Init /\ [][NextPictures]_vars

(***************************************************************************)
(* Signup validation (C3, C4).                                             *)
(***************************************************************************)
\* The email without the white space around it.
CoreOf(e) ==
    LET solid == {i \in 1..Len(e) : e[i] # " "}
    IN  IF solid = {} THEN <<>>
        ELSE SubSeq(e, CHOOSE i \in solid : \A j \in solid : i <= j,
                       CHOOSE i \in solid : \A j \in solid : j <= i)

\* local-part '@' domain '.' TLD, the TLD of at least 2 letters, stated on the
\* positions of the '@' and of the dot before the TLD (letters of either case).
MatchesEmailPattern(e) ==
    \E at \in 1..Len(e), dot \in 1..Len(e) :
        /\ e[at] = "@" /\ e[dot] = "."
        /\ 1 < at /\ at + 1 < dot /\ dot + 2 <= Len(e)
        /\ \A i \in 1..(at - 1) : e[i] \in {"a", "A", "1", "_", "."}
        /\ \A i \in (at + 1)..(dot - 1) : e[i] \in {"a", "A", "1", "."}
        /\ \A i \in (dot + 1)..Len(e) : e[i] \in {"a", "A"}

SignupDone == pc = "done" /\ req.handler = "signup"

\* C3: a signup whose email, trimmed and lower-cased, does not match
\* local@domain.tld is answered 400 and sends no call to the BaaS.
C3_MalformedEmailRejected ==
    (SignupDone /\ ~MatchesEmailPattern(CoreOf(req.body.email)))
        => (resp.code = 400 /\ calls = <<>>)

\* A signup with a one-letter TLD and an acceptable password was refused.
C3_Witness ==
    /\ SignupDone
    /\ req.body.email = <<" ", "A", "@", "a", ".", "a">>
    /\ req.body.password.bytes >= MinPasswordLen
    /\ resp.code = 400 /\ resp.message = "Invalid email format"
    /\ calls = <<>>

\* C4: a signup with a well-formed email and a password of fewer than 6
\* characters is answered 400 and sends no call to the BaaS, and a password
\* of 6 or more characters is not refused for its length.
C4_ShortPasswordRejected ==
    (SignupDone /\ MatchesEmailPattern(CoreOf(req.body.email)))
        => /\ req.body.password.chars < 6 => (resp.code = 400 /\ calls = <<>>)
           /\ req.body.password.chars >= 6 => calls # <<>>

(***************************************************************************)
(* Claims about POST /auth/complete-profile.                               *)
(***************************************************************************)
CompleteProfileDone == pc = "done" /\ req.handler = "complete_profile"

\* The calendar day a date string denotes to its writer: day, month, year
\* around '/', or year, month, day around '-'; white space aside.
DenotedDay(s) ==
    LET t == SelectSeq(s, LAMBDA x : x # Ch(" "))
    IN  IF Len(t) = 5 /\ t[2] = Ch("/") /\ t[4] = Ch("/")
        THEN Date(t[5].v, t[3].v, t[1].v)
        ELSE Date(t[1].v, t[3].v, t[5].v)

\* YYYY-MM-DD: four digits, two digits, two digits around '-'.
IsIsoOf(s, dt) ==
    /\ Len(s) = 5
    /\ s[1] = Num(dt.y, 4) /\ s[2] = Ch("-") /\ s[3] = Num(dt.m, 2)
    /\ s[4] = Ch("-") /\ s[5] = Num(dt.d, 2)

UpsertCalls == {i \in 1..Len(calls) : calls[i].op = "upsert_profile"}

\* C5: in complete-profile every accepted date of birth reaches the profile
\* upsert, and the date_of_birth of every upsert payload is the ISO
\* YYYY-MM-DD form of the calendar day the request's string denotes.
C5_DobSentAsIso ==
    CompleteProfileDone =>
        /\ resp.code \in {201, 500} => UpsertCalls # {}
        /\ \A i \in UpsertCalls :
              IsIsoOf(calls[i].arg.date_of_birth, DenotedDay(req.body.date_of_birth))

C5_Witness ==
    /\ CompleteProfileDone
    /\ req.body.date_of_birth
         = <<Num(15, 2), Ch("/"), Num(6, 2), Ch("/"), Num(1990, 4)>>
    /\ resp.code = 201
    /\ Len(calls) = 2
    /\ calls[2].op = "upsert_profile"
    /\ calls[2].arg.date_of_birth
         = <<Num(1990, 4), Ch("-"), Num(6, 2), Ch("-"), Num(15, 2)>>

\* The age in whole calendar years on the day now of a person born on dob.
AgeYears(dob, now) ==
    now.y - dob.y - (IF <<now.m, now.d>> = <<dob.m, dob.d>> THEN 0
                     ELSE IF now.m < dob.m \/ (now.m = dob.m /\ now.d < dob.d)
                     THEN 1 ELSE 0)

\* The date string names a day in one of the two forms.
DobParses(s) ==
    LET t == SelectSeq(s, LAMBDA x : x # Ch(" "))
    IN  /\ ParseDob(s).ok
        /\ Len(t) = 5

\* The request breaks one of the validation rules of complete-profile.
ViolatesRule(body, now) ==
    \/ TrimIsEmpty(body.email) \/ TrimIsEmpty(body.password)
    \/ DateStrIsBlank(body.date_of_birth)
    \/ TrimIsEmpty(body.primary_skill) \/ TrimIsEmpty(body.skill_to_learn)
    \/ TrimIsEmpty(body.bio)
    \/ ~DobParses(body.date_of_birth)
    \/ AgeYears(DenotedDay(body.date_of_birth), now) \notin MinAgeYears..MaxAgeYears
    \/ body.primary_skill.chars > MaxSkillLen
    \/ body.skill_to_learn.chars > MaxSkillLen
    \/ body.bio.chars > MaxBioLen

\* C6: a complete-profile request that violates a validation rule gets a 400
\* and causes no BaaS call, neither login nor profile upsert.
C6_ValidationBeforeBaaS ==
    (CompleteProfileDone /\ ViolatesRule(req.body, today)) =>
        resp.code = 400 /\ calls = <<>>

\* C7: complete-profile accepts a date of birth exactly when the age it
\* implies on the day of the check is 13 to 120 whole calendar years.
C7_AgeInCalendarYears ==
    (CompleteProfileDone /\ DobParses(req.body.date_of_birth)
        /\ ~TrimIsEmpty(req.body.email) /\ ~TrimIsEmpty(req.body.password)
        /\ ~TrimIsEmpty(req.body.primary_skill)
        /\ ~TrimIsEmpty(req.body.skill_to_learn) /\ ~TrimIsEmpty(req.body.bio)) =>
        (resp.message # "Age must be between 13 and 120 years"
            <=> AgeYears(DenotedDay(req.body.date_of_birth), today)
                    \in MinAgeYears..MaxAgeYears)

(***************************************************************************)
(* Claims about the token extractor and the routes behind it.              *)
(***************************************************************************)
ProtectedHandlers ==
    {"get_user_profile", "get_current_profile", "update_user_profile", "create_post",
     "upload_profile_picture", "skip_profile_picture"}

ProtectedDone == pc = "done" /\ req.handler \in ProtectedHandlers

\* The header is text that starts with "Bearer ".
HasBearer(hdr) == hdr.present /\ hdr.ascii /\ hdr.text # <<>> /\ hdr.text[1] = BEARER

\* The dot-separated segments of the token that follows "Bearer ".
SegmentsOf(hdr) == SplitOn(Tail(hdr.text), DOT)

\* What a segment base64-decodes to, under either decoder.
DecodedBy(seg) ==
    IF URL_SAFE_NO_PAD_decode(seg).ok THEN URL_SAFE_NO_PAD_decode(seg)
    ELSE STANDARD_decode(seg)

\* The UUID in the string field sub of the JSON object the segment decodes
\* to; "" when there is none.
SubjectOf(seg) ==
    LET d == DecodedBy(seg)
        info == DocInfo(d.doc)
    IN  IF d.ok /\ info.utf8 /\ info.json /\ info.sub = "string" /\ UuidParse(info).ok
        THEN UuidParse(info).id ELSE ""

\* C1: a bearer token of exactly three segments whose middle segment decodes
\* to a JSON object with a well-formed UUID in sub authenticates the request
\* as that UUID, and the extractor's outcome on every token with the same
\* middle segment, whatever its header and signature segments, is the outcome
\* of this request.
C1_IdentityFromMiddleSegment ==
    (ProtectedDone /\ HasBearer(req.header) /\ Len(SegmentsOf(req.header)) = 3) =>
        LET mid == SegmentsOf(req.header)[2]
            outcome == IF req.user_id = "" THEN "rejected" ELSE req.user_id
        IN  /\ SubjectOf(mid) # "" => (req.user_id = SubjectOf(mid) /\ resp.code # 401)
            /\ \A h \in EdgeSegs, g \in EdgeSegs :
                 LET r == extract_user_id_from_jwt(JoinWith(<<h, mid, g>>, DOT))
                 IN  (IF r.ok THEN r.user_id ELSE "rejected") = outcome

C1_Witness ==
    /\ ProtectedDone
    /\ req.handler = "create_post"
    /\ HasBearer(req.header)
    /\ SegmentsOf(req.header)
         = << <<Run("sub_u1", "alnum", 0, 0)>>, <<Run("sub_u2", "url", 0, 2)>>,
              <<Run("sub_u2", "junk", 0, 0)>> >>
    /\ req.user_id = "u2"
    /\ Len(calls) = 1
    /\ calls[1].arg.user_id = "u2"

\* The case of the rejection list the header falls in; "none" when in none.
RejectionCase(hdr) ==
    IF ~hdr.present THEN "header missing"
    ELSE IF ~hdr.ascii THEN "none"
    ELSE IF ~HasBearer(hdr) THEN "no Bearer prefix"
    ELSE IF Len(SegmentsOf(hdr)) # 3 THEN "not 3 segments"
    ELSE LET d == DecodedBy(SegmentsOf(hdr)[2])
             info == DocInfo(d.doc)
         IN  IF ~d.ok THEN "undecodable"
             ELSE IF ~info.utf8 \/ ~info.json THEN "not JSON"
             ELSE IF info.sub # "string" THEN "sub absent"
             ELSE IF ~UuidParse(info).ok THEN "sub not a UUID"
             ELSE "none"

\* C2: on every route that requires a bearer token, a request whose header
\* is missing, lacks the Bearer prefix, has a token of other than 3 segments,
\* an undecodable middle segment, a payload that is no JSON, no sub or a sub
\* that is no UUID is answered 401, and the handler's body does not run: no
\* BaaS call, no operation on local storage.
C2_RejectedBeforeHandler ==
    (ProtectedDone /\ RejectionCase(req.header) # "none") =>
        /\ resp.code = 401
        /\ calls = <<>>
        /\ fsops = <<>>
        /\ fs = req.files

C2_Witness ==
    /\ ProtectedDone
    /\ req.handler = "upload_profile_picture"
    /\ RejectionCase(req.header) = "sub not a UUID"
    /\ resp.code = 401
    /\ calls = <<>>
    /\ fsops = <<>>

(***************************************************************************)
(* Claims about GET /api/posts.                                            *)
(***************************************************************************)
ListPostsEnded == pc \in {"done", "panic"} /\ req.handler = "list_posts"

\* The answer carries the posts with their joined profiles.
EmbedSucceeds(a, table) ==
    a.mode = "rows" /\ \A i \in 1..Len(table) : table[i].user_id # ""

\* The profile-join query fails: the embed by foreign-key name does, and so
\* does the unqualified embed that is tried after a non-success status.
JoinFails(r) ==
    /\ ~EmbedSucceeds(r.q1, r.table)
    /\ r.q1.mode = "status" => ~EmbedSucceeds(r.q2, r.table)

PlainSucceeds(r) == r.q3.mode = "rows"

Owns(r, i) == r.user_id # "" /\ r.table[i].user_id = r.user_id

\* The response is a 200 with every post, in the fallback form.
FallbackListing ==
    /\ pc = "done"
    /\ resp.code = 200
    /\ Len(resp.data.posts) = Len(req.table)
    /\ \A i \in 1..Len(req.table) :
         /\ resp.data.posts[i].id = req.table[i].id
         /\ resp.data.posts[i].author_name = (IF Owns(req, i) THEN "You" ELSE "Member")
         /\ resp.data.posts[i].author_avatar = ""
         /\ resp.data.posts[i].author_primary_skill = ""

\* C8: whenever the profile-join query of the post listing fails and the
\* plain post query succeeds, GET posts returns 200 with every post, the
\* author named "You" on the caller's posts and "Member" on the others, with
\* no avatar and no primary skill.
C8_FallbackListing ==
    (ListPostsEnded /\ JoinFails(req) /\ PlainSucceeds(req)) => FallbackListing

\* The same, the requests that end in a panic aside.
C8_FallbackUnlessPanic ==
    (ListPostsEnded /\ JoinFails(req) /\ PlainSucceeds(req)) =>
        (pc = "panic" \/ FallbackListing)

(***************************************************************************)
(* Claims about the profile pictures.                                      *)
(***************************************************************************)
UploadDone == pc = "done" /\ req.handler = "upload_profile_picture"

\* C9: an upload, by an authenticated user, whose content type is none of
\* image/jpeg, image/jpg, image/png, image/gif and image/webp is answered 400
\* and touches nothing: no directory is created, no file written, local
\* storage is as it was, and no BaaS call is made.
C9_DisallowedTypeTouchesNothing ==
    (UploadDone /\ req.user_id # ""
        /\ req.body.content_type
             \notin {"image/jpeg", "image/jpg", "image/png", "image/gif", "image/webp"}) =>
        /\ resp.code = 400
        /\ fsops = <<>>
        /\ fs = req.files
        /\ calls = <<>>

C9_Witness ==
    /\ UploadDone
    /\ req.user_id = "u1"
    /\ req.body.content_type = "image/bmp"
    /\ req.body.image_data = <<Part(TRUE, "imgA")>>
    /\ req.files.files # {}
    /\ resp.code = 400
    /\ fs = req.files

ServeDone == pc = "done" /\ req.handler = "serve_profile_picture"

\* The base name of a requested filename: its last segment, empty segments
\* and "." aside; none when that segment is "..".
RECURSIVE BaseName(_)
BaseName(filename) ==
    IF filename = <<>> THEN <<>>
    ELSE IF Last(filename) \in {<<>>, CurDir} THEN BaseName(Front(filename))
    ELSE IF Last(filename) = ParentDir THEN <<>>
    ELSE Last(filename)

Traversal == <<ParentDir, ParentDir, <<"etc">>, <<"passwd">>>>

\* C10: the picture-serving handler reads one file, the one in
\* uploads/profile_pictures named by the base name of the requested filename;
\* a file it serves lies in that directory, and ../../etc/passwd is answered
\* 404.
C10_ServeReadsBaseNameOnly ==
    ServeDone =>
        /\ Len(fsops) = 1
        /\ fsops[1].op = "read"
        /\ Len(fsops[1].path) = 3
        /\ SubSeq(fsops[1].path, 1, 2) = UploadDir
        /\ fsops[1].path[3] \notin {<<>>, CurDir, ParentDir}
        /\ BaseName(req.body.filename) # <<>>
             => fsops[1].path[3] = BaseName(req.body.filename)
        /\ resp.code = 200 =>
             /\ fsops[1].at = fsops[1].path
             /\ \E f \in req.files.files :
                  f.name = fsops[1].path[3] /\ f.bytes = resp.message
        /\ resp.code \in {200, 404}
        /\ req.body.filename = Traversal => resp.code = 404

C10_Witness ==
    /\ ServeDone
    /\ req.body.filename = Traversal
    /\ req.files.dir
    /\ req.files.files # {}
    /\ fsops = <<FsOp("read", Append(UploadDir, <<"passwd">>), <<>>)>>
    /\ resp.code = 404

(***************************************************************************)
(* Claims about the compensation of a picture upload.                      *)
(***************************************************************************)
PatchCalls == {i \in 1..Len(calls) : calls[i].op = "patch_profile_picture"}

PatchFailed(i) == calls[i].out.kind \in {"transport", "status"}

\* The file an upload by this user with this content type is stored in.
UploadedName ==
    <<req.user_id, "_profile", ".",
      CASE req.body.content_type \in {"image/jpeg", "image/jpg"} -> "jpg"
        [] req.body.content_type = "image/png" -> "png"
        [] req.body.content_type = "image/gif" -> "gif"
        [] req.body.content_type = "image/webp" -> "webp"
        [] OTHER -> "none">>

\* The patch is sent after create_dir_all and a write that did not fail, and
\* a failed patch is answered 500 with the written file removed again.
PatchAfterWriteAndUndone ==
    /\ PatchCalls # {} =>
          /\ Len(fsops) >= 2
          /\ fsops[1].op = "create_dir_all"
          /\ fsops[2].op = "write"
          /\ fsops[2].path = Append(UploadDir, UploadedName)
          /\ resp.message # "Failed to save profile picture"
    /\ \A i \in PatchCalls :
          PatchFailed(i) =>
              /\ resp.code = 500
              /\ Last(fsops) = FsOp("remove_file", Append(UploadDir, UploadedName),
                                    Append(UploadDir, UploadedName))
              /\ UploadedName \notin FileNames(fs.files)

\* C11: in a picture upload the profile row is patched only after the file
\* write succeeded; when the patch fails the file this upload wrote is
\* deleted and the response is 500; and an upload that is not answered 200
\* leaves no file in storage that was not there before it.
C11_FailedUploadLeavesNoFile ==
    (UploadDone /\ req.user_id # "") =>
        /\ PatchAfterWriteAndUndone
        /\ resp.code # 200 => FileNames(fs.files) \subseteq FileNames(req.files.files)

\* The part of C11 about the patch alone: its place after the write and the
\* removal of the file when it fails.
C11_PatchFailureRemovesFile ==
    (UploadDone /\ req.user_id # "") => PatchAfterWriteAndUndone

(***************************************************************************)
(* Claims about POST /auth/login.                                          *)
(***************************************************************************)
LoginDone == pc = "done" /\ req.handler = "login"

\* The BaaS password login succeeded: it answered with a user.
BaaSLoginSucceeded == Len(calls) >= 1 /\ calls[1].op = "login" /\ calls[1].out.kind = "ok"

\* What the BaaS answered to the profile query that followed the login.
ProfileAnswer == calls[2].out

\* C12: after a successful BaaS password login the login handler looks the
\* profile up by the user id of the login and answers 200 in both branches:
\* with the session, the profile and next_step "dashboard" when the BaaS
\* returns a profile row of that user, and with the session and next_step
\* "complete_profile" when it returns no row; no row is never an error.
C12_LoginBranchesOnProfile ==
    (LoginDone /\ BaaSLoginSucceeded) =>
        /\ Len(calls) = 2
        /\ calls[2].op = "get_profile"
        /\ calls[2].arg.id = calls[1].out.user
        /\ (ProfileAnswer.kind = "row" /\ ProfileAnswer.row = "ok") =>
              /\ resp.code = 200
              /\ resp.status = "success"
              /\ DOMAIN resp.data = {"null", "session", "profile", "next_step"}
              /\ resp.data.session.user_id = calls[1].out.user
              /\ resp.data.profile.user_id = calls[1].out.user
              /\ resp.data.next_step = "dashboard"
        /\ ProfileAnswer.kind = "empty" =>
              /\ resp.code = 200
              /\ resp.status = "success"
              /\ DOMAIN resp.data = {"null", "session", "next_step"}
              /\ resp.data.session.user_id = calls[1].out.user
              /\ resp.data.next_step = "complete_profile"

C12_Witness ==
    /\ LoginDone
    /\ BaaSLoginSucceeded
    /\ calls[1].out.user = "u2"
    /\ ProfileAnswer.kind = "empty"
    /\ resp.code = 200
    /\ resp.data.next_step = "complete_profile"

(***************************************************************************)
(* Claims about the re-authentication of complete-profile.                 *)
(***************************************************************************)
LoginCalls == {i \in 1..Len(calls) : calls[i].op = "login"}

\* C13: complete-profile first logs in with the email and password of the
\* request and only then upserts the profile: a request that reaches the
\* BaaS sends the login first; when the login fails the response is 401 and
\* no upsert is sent; and every upsert follows a successful login and
\* carries as id the user id that login returned.
C13_UpsertKeyedByLogin ==
    CompleteProfileDone =>
        /\ calls # <<>> =>
              /\ LoginCalls = {1}
              /\ calls[1].arg.email = req.body.email
              /\ calls[1].arg.password = req.body.password
        /\ (calls # <<>> /\ calls[1].out.kind # "ok") =>
              /\ resp.code = 401
              /\ UpsertCalls = {}
        /\ \A i \in UpsertCalls :
              /\ i = 2
              /\ calls[1].out.kind = "ok"
              /\ calls[i].arg.id = calls[1].out.user
              /\ calls[i].arg.id \in Users

C13_Witness ==
    /\ CompleteProfileDone
    /\ Len(calls) = 2
    /\ calls[1].op = "login"
    /\ calls[1].out = [kind |-> "ok", user |-> "u2"]
    /\ calls[2].op = "upsert_profile"
    /\ calls[2].arg.id = "u2"
    /\ resp.code = 201

\* A login that failed: 401 and nothing upserted.
C13_FailedLoginReached ==
    /\ CompleteProfileDone
    /\ Len(calls) = 1
    /\ calls[1].out.kind = "status"
    /\ resp.code = 401

(***************************************************************************)
(* Claims about the responses of every route.                              *)
(***************************************************************************)
\* A response with a body that is not a served file.
Answered == pc = "done" /\ resp.kind # "bytes"

\* C14: every response the server produces other than a served file, success
\* or error, on every route (the 401 of the token extractor, the 404 of the
\* picture-serving route and the /test/supabase diagnostic included) is a
\* JSON object with exactly the fields status, message and data.
C14_EveryBodyIsEnvelope ==
    Answered =>
        /\ resp.kind \in {"envelope", "json"}
        /\ resp.fields = {"status", "message", "data"}

\* The requests the extractor turns away.
RejectedHeaders == {h \in AllHeaders : ~from_request(h).ok}

\* C15: every authentication failure answered with 401 carries the same
\* generic body whatever check failed: the 401 a rejected request to a
\* protected endpoint receives is the body every other rejected request to
\* that endpoint receives (missing header, wrong prefix, malformed token,
\* bad payload).
C15_SameBodyForEveryRejection ==
    (ProtectedDone /\ resp.code = 401) =>
        \A h \in RejectedHeaders :
            /\ from_request(h).reject.message = resp.message
            /\ from_request(h).reject.kind = resp.kind

\* The login's part of C15: whatever made the BaaS login fail (unknown email,
\* wrong password, a BaaS or transport error), the 401 is the same body.
C15_LoginRejectionsAlike ==
    (LoginDone /\ resp.code = 401) =>
        resp = ApiResponse(401, "error", "Invalid email or password", NoData)

(***************************************************************************)
(* Claims about unhandled faults.                                          *)
(***************************************************************************)
\* C16: no request makes a handler end in a panic: the post listing ends
\* with a response for every BaaS response body, bodies of more than 500
\* bytes with multi-byte characters included.
C16_NoRequestPanics == pc # "panic" /\ (ListPostsEnded => resp.code \in {200, 500})

(***************************************************************************)
(* Claims about the profile invariant.                                     *)
(***************************************************************************)
ProfileWriteDone ==
    pc = "done" /\ req.handler \in {"complete_profile", "update_user_profile"}

\* The upserts of a profile row that the BaaS stored.
ProfileWrites ==
    {i \in 1..Len(calls) :
        /\ calls[i].op \in {"upsert_profile", "upsert_profile_row"}
        /\ calls[i].out.kind \in {"ok", "row"}}

\* A complete-profile request whose only fault is that both skills are
\* "Music".
SameSkillBody ==
    [email |-> Text("a@a.aa", 6, 6), password |-> Text("pw", 6, 6),
     date_of_birth |-> <<Num(15, 2), Ch("/"), Num(6, 2), Ch("/"), Num(1990, 4)>>,
     primary_skill |-> Text("Music", 5, 5), skill_to_learn |-> Text("Music", 5, 5),
     bio |-> Text("bio", 20, 20)]

\* C17: every profile row written through complete-profile or PUT
\* /api/profile has a primary skill and a skill to learn that are both among
\* the nine skills and differ, and a bio of 10 to 1000 characters; a request
\* whose primary skill equals its skill to learn stores nothing, and one
\* whose only fault that is (both "Music") is rejected with the message of
\* that rule before any BaaS call.
C17_WrittenProfileIsValid ==
    ProfileWriteDone =>
        /\ \A i \in ProfileWrites :
              /\ calls[i].arg.primary_skill.text \in VALID_SKILLS
              /\ calls[i].arg.skill_to_learn.text \in VALID_SKILLS
              /\ calls[i].arg.primary_skill.text # calls[i].arg.skill_to_learn.text
              /\ calls[i].arg.bio.chars \in 10..1000
        /\ req.body.primary_skill = req.body.skill_to_learn => ProfileWrites = {}
        /\ req.body = SameSkillBody =>
              /\ resp.code = 400
              /\ resp.message = "Primary skill and skill to learn cannot be the same."
              /\ calls = <<>>

\* Both skills "Music", everything else valid: the row is stored.
C17_SameSkillStored ==
    /\ ProfileWriteDone
    /\ req.body.primary_skill = Text("Music", 5, 5)
    /\ req.body.skill_to_learn = Text("Music", 5, 5)
    /\ req.body.bio = Text("bio", 20, 20)
    /\ resp.code \in {200, 201}
    /\ ProfileWrites # {}

(***************************************************************************)
(* Claims about startup.                                                   *)
(***************************************************************************)
Serving == pc = "idle"

\* The variables the specification calls required.
RequiredEnv ==
    {"SUPABASE_URL", "SUPABASE_ANON_KEY", "SUPABASE_SERVICE_ROLE_KEY",
     "PG_HOST", "PG_USER", "PG_DB"}

\* C18: the server reaches the serving state only when the BaaS base URL, the
\* BaaS anonymous key, the BaaS service-role key, the database host, the
\* database user and the database name were all present at startup.
C18_ServesOnlyWithRequiredEnv == Serving => RequiredEnv \subseteq env

\* The same without the anonymous key: the five variables main and
\* get_pg_pool refuse to start without.
C18_ServesOnlyWithCheckedEnv ==
    Serving => (RequiredEnv \ {"SUPABASE_ANON_KEY"}) \subseteq env

(***************************************************************************)
(* Claims about the routes.                                                *)
(***************************************************************************)
Routed == pc \in {"done", "panic"} /\ req.handler # "none"

\* The handler the interface table gives a POST to a path under /auth.
AuthTable ==
    [p \in {<<Seg("auth"), Seg("signup")>>, <<Seg("auth"), Seg("complete-profile")>>,
            <<Seg("auth"), Seg("login")>>} |->
        CASE p[2] = Seg("signup") -> "signup"
          [] p[2] = Seg("complete-profile") -> "complete_profile"
          [] p[2] = Seg("login") -> "login"]

\* C19: with the route registration of main, a POST to /auth/signup,
\* /auth/complete-profile and /auth/login is handled by the signup,
\* complete_profile and login handler respectively.
C19_AuthPathsReachTheirHandlers ==
    (Routed /\ req.method = "POST" /\ req.path \in DOMAIN AuthTable) =>
        req.handler = AuthTable[req.path]

\* Where the three handlers do answer: under the scope's prefix once more.
C19_HandlersAnswerUnderDoubledPrefix ==
    (Routed /\ req.method = "POST" /\ Len(req.path) = 3
        /\ req.path[1] = Seg("auth") /\ Tail(req.path) \in DOMAIN AuthTable) =>
        req.handler = AuthTable[Tail(req.path)]

\* C20: GET /api/profile with a valid bearer token is answered by the same
\* handler for every request, with 200 and the profile when the BaaS returns
\* a row for the token's user id and with 200 and data null when it returns
\* none; a missing profile is never answered 404.
C20_GetProfileIs200 ==
    (Routed /\ req.method = "GET" /\ req.path = <<Seg("api"), Seg("profile")>>
        /\ req.user_id \in Users) =>
        /\ req.handler = "get_user_profile"
        /\ Len(calls) = 1
        /\ calls[1].arg.id = req.user_id
        /\ calls[1].out.kind = "row" =>
              (resp.code = 200 /\ ~resp.data.null /\ resp.data.user_id = req.user_id)
        /\ calls[1].out.kind = "empty" => (resp.code = 200 /\ resp.data.null)
        /\ resp.code # 404

\* The same at the path the registration gives the handlers.
C20_GetProfileIs200UnderDoubledPrefix ==
    (Routed /\ req.method = "GET"
        /\ req.path = <<Seg("api"), Seg("api"), Seg("profile")>>
        /\ req.user_id \in Users) =>
        /\ req.handler = "get_user_profile"
        /\ Len(calls) = 1
        /\ calls[1].arg.id = req.user_id
        /\ calls[1].out.kind = "row" =>
              (resp.code = 200 /\ ~resp.data.null /\ resp.data.user_id = req.user_id)
        /\ calls[1].out.kind = "empty" => (resp.code = 200 /\ resp.data.null)
        /\ resp.code # 404

(***************************************************************************)
(* Claims about the errors of the BaaS.                                    *)
(***************************************************************************)
\* The signup call was sent and did not give a user id.
SignupCallFailed ==
    SignupDone /\ Len(calls) = 1 /\ calls[1].op = "signup" /\ calls[1].out.kind # "ok"

\* The text of the failure as the BaaS and the service worded it mentions
\* "already registered": the msg of the error body, or the body quoted whole.
FailureMentionsRegistered ==
    /\ calls[1].out.kind \in {"status_msg", "status_raw"}
    /\ Contains(calls[1].out.text, "already registered")

\* C21: when the BaaS signup call fails, the handler answers "Email already
\* exists. Please login instead." exactly when the error text contains
\* "already registered" and "Failed to create account. Please try again."
\* for every other failure; the response carries no data and none of the
\* BaaS's own text.
C21_SignupErrorMapping ==
    SignupCallFailed =>
        /\ resp.kind = "envelope"
        /\ resp.status = "error"
        /\ resp.data = NoData
        /\ resp.message = IF FailureMentionsRegistered
                          THEN "Email already exists. Please login instead."
                          ELSE "Failed to create account. Please try again."
        /\ ~Contains(calls[1].out.text, resp.message)

\* A failure whose text mentions "already registered" and one that does not
\* although the body the BaaS sent does.
C21_Witness ==
    /\ SignupCallFailed
    /\ FailureMentionsRegistered
    /\ resp.message = "Email already exists. Please login instead."

C21_OtherFailureReached ==
    /\ SignupCallFailed
    /\ calls[1].out.kind = "status_msg"
    /\ calls[1].out.text = <<"User ", "Already Registered">>
    /\ resp.message = "Failed to create account. Please try again."

\* The BaaS answered the call with a non-success status or with a body that
\* does not parse.
BaaSCallFailed(c) ==
    c.out.kind \in {"status", "malformed",
                    "status_msg", "status_msg_other", "status_raw", "invalid_json"}

UpstreamHandlers ==
    {"signup", "login", "complete_profile", "get_user_profile", "get_current_profile",
     "update_user_profile", "create_post", "upload_profile_picture"}

\* C22: when a BaaS call of signup, login, complete-profile, the profile
\* read or update, the post creation or the picture upload returns a
\* non-success status or a malformed body, the response is a 5xx, never a
\* 4xx.
C22_UpstreamFailureIs5xx ==
    /\ pc = "done"
    /\ req.handler \in UpstreamHandlers
    /\ \E i \in 1..Len(calls) : BaaSCallFailed(calls[i])
    => resp.code \in 500..599

(***************************************************************************)
(* Claims about uploads served at the same time.                           *)
(***************************************************************************)
UploadSucceeded(w) == workers[w].pc = "done" /\ workers[w].resp.code = 200

\* Two uploads for the same user and the same content type have both
\* succeeded.
BothSucceeded(v, w) ==
    /\ v # w
    /\ UploadSucceeded(v) /\ UploadSucceeded(w)
    /\ workers[v].user_id = workers[w].user_id
    /\ workers[v].content_type = workers[w].content_type

\* C23: when two concurrent uploads for the same user and content type both
\* succeed, the destination file holds exactly the bytes of the upload
\* whose write happened last, and the profile row's picture URL names that
\* file.
C23_LastWriteWins ==
    \A v, w \in Workers :
        BothSucceeded(v, w) /\ workers[v].wrote < workers[w].wrote =>
            /\ WorkerFileName(w) \in FileNames(fs.files)
            /\ FileNamed(fs.files, WorkerFileName(w)).bytes = workers[w].bytes
            /\ db[workers[w].user_id] = PublicUrl(WorkerFileName(w))

\* What does hold: the file is there under the one name, the row names it,
\* and the file holds the last writer's bytes whenever the first writer's
\* picture is not the longer one.
C23_LastWriteWinsUnlessLonger ==
    \A v, w \in Workers :
        BothSucceeded(v, w) /\ workers[v].wrote < workers[w].wrote =>
            /\ WorkerFileName(v) = WorkerFileName(w)
            /\ WorkerFileName(w) \in FileNames(fs.files)
            /\ db[workers[w].user_id] = PublicUrl(WorkerFileName(w))
            /\ Len(workers[v].bytes) <= Len(workers[w].bytes) =>
                   FileNamed(fs.files, WorkerFileName(w)).bytes = workers[w].bytes

(***************************************************************************)
(* Claims about the BaaS calls of one request.                             *)
(***************************************************************************)
\* The service function that sent the call returned Err.
CallErr(c) ==
    CASE c.op = "signup" -> ~signup_only(c.out).ok
      [] c.op = "login" -> ~login_with_user_id(c.out).ok
      [] c.op = "upsert_profile" -> ~add_personal_sb(c.out).ok
      [] c.op = "get_profile_rows" -> get_user_profile_data(c.out) = "err"
      [] c.op = "get_profile" -> get_user_profile(c.out) = "err"
      [] c.op = "upsert_profile_row" -> ~upsert_profile_data(c.out).ok
      [] c.op = "insert_post" -> ~create_post_repo(c.out).ok
      [] c.op = "patch_profile_picture" -> ~update_profile_picture(c.out).ok
      [] OTHER -> FALSE

RoutedToUpstreamHandler == pc = "done" /\ req.handler \in UpstreamHandlers

C24_FailedPatchReached ==
    /\ RoutedToUpstreamHandler
    /\ req.handler = "upload_profile_picture"
    /\ Len(calls) = 1 /\ CallErr(calls[1])
    /\ Len(fsops) = 3

(***************************************************************************)
(* Claims about the queries of the post listing.                           *)
(***************************************************************************)
ListPostsDone == pc = "done" /\ req.handler = "list_posts"

QueryOrder == <<"posts_embed_fkey", "posts_embed", "posts_plain">>

\* The query gave the listing its posts.
QuerySucceeded(c) ==
    IF c.op = "posts_plain" THEN c.out.mode = "rows"
    ELSE EmbedSucceeds(c.out, req.table)

\* C25: the post listing sends its queries in the order explicit-key embed,
\* unqualified embed, plain list; each is sent only when the one before it
\* has failed (by status, transport or parsing), and none is sent after one
\* that succeeded.
C25_QueriesInFixedOrder ==
    ListPostsDone =>
        /\ Len(calls) \in 1..3
        /\ \A i \in 1..Len(calls) : calls[i].op = QueryOrder[i]
        /\ \A i \in 1..Len(calls) : QuerySucceeded(calls[i]) => i = Len(calls)

\* What does hold: the unqualified embed is sent exactly when the first
\* query came back with a non-success status, and no query follows one that
\* succeeded.
C25_SecondEmbedOnlyAfterStatus ==
    ListPostsDone =>
        /\ calls[1].op = "posts_embed_fkey"
        /\ (\E i \in 1..Len(calls) : calls[i].op = "posts_embed")
              <=> calls[1].out.mode = "status"
        /\ \A i \in 1..Len(calls) : QuerySucceeded(calls[i]) => i = Len(calls)

(***************************************************************************)
(* Claims about PUT /api/profile.                                          *)
(***************************************************************************)
\* An update that was let in and whose skills passed the handler's checks.
UpdateWithSkillsDone ==
    /\ pc = "done" /\ req.handler = "update_user_profile"
    /\ req.user_id # ""
    /\ ~TrimIsEmpty(req.body.primary_skill) /\ ~TrimIsEmpty(req.body.skill_to_learn)

DobFormats == <<"%Y-%m-%d", "%d/%m/%Y", "%m/%d/%Y">>

DayFirstOrMonthFirst == <<Num(1, 2), Ch("/"), Num(2, 2), Ch("/"), Num(2000, 4)>>

\* C26: PUT profile reads a non-empty date of birth by the first of
\* YYYY-MM-DD, DD/MM/YYYY, MM/DD/YYYY that parses it and sends that date in
\* ISO form, so 01/02/2000 is the first of February; an empty date is sent
\* as null; a date that none of the formats parses gets 400 and no BaaS
\* call.
C26_FlexibleDateOfBirth ==
    UpdateWithSkillsDone =>
        LET s == req.body.date_of_birth
            Parsed(k) == parse_from_str(s, DobFormats[k])
        IN  IF DateStrIsBlank(s)
            THEN Len(calls) = 1 /\ calls[1].arg.date_of_birth.null
            ELSE IF \A k \in 1..3 : ~Parsed(k).ok
            THEN resp.code = 400 /\ calls = <<>>
            ELSE /\ Len(calls) = 1
                 /\ ~calls[1].arg.date_of_birth.null
                 /\ \E k \in 1..3 :
                       /\ Parsed(k).ok
                       /\ \A j \in 1..(k - 1) : ~Parsed(j).ok
                       /\ IsIsoOf(calls[1].arg.date_of_birth.text, Parsed(k).date)
                 /\ s = DayFirstOrMonthFirst =>
                       IsIsoOf(calls[1].arg.date_of_birth.text, Date(2000, 2, 1))

\* A date that both slash formats parse, sent as the first of February.
C26_Witness ==
    /\ UpdateWithSkillsDone
    /\ req.body.date_of_birth = DayFirstOrMonthFirst
    /\ Len(calls) = 1
    /\ IsIsoOf(calls[1].arg.date_of_birth.text, Date(2000, 2, 1))

C26_NullDateReached ==
    /\ UpdateWithSkillsDone
    /\ req.body.date_of_birth = <<Ch(" ")>>
    /\ Len(calls) = 1 /\ calls[1].arg.date_of_birth.null

C26_MonthFirstReached ==
    /\ UpdateWithSkillsDone
    /\ req.body.date_of_birth = <<Num(6, 2), Ch("/"), Num(15, 2), Ch("/"), Num(1990, 4)>>
    /\ Len(calls) = 1
    /\ IsIsoOf(calls[1].arg.date_of_birth.text, Date(1990, 6, 15))

C26_UnparsedDateReached ==
    /\ UpdateWithSkillsDone
    /\ req.body.date_of_birth = <<Num(31, 2), Ch("/"), Num(2, 2), Ch("/"), Num(2000, 4)>>
    /\ resp.code = 400 /\ calls = <<>>

(***************************************************************************)
(* Claims about the destination of an upload.                              *)
(***************************************************************************)
\* The extension the claim gives each allowed content type.
ClaimedExtension ==
    [t \in AllowedTypes |->
        CASE t \in {"image/jpeg", "image/jpg"} -> "jpg"
          [] t = "image/png" -> "png"
          [] t = "image/gif" -> "gif"
          [] t = "image/webp" -> "webp"]

\* uploads/profile_pictures/<user id>_profile.<ext>
ClaimedPath(user_id, content_type) ==
    <<<<"uploads">>, <<"profile_pictures">>,
      <<user_id, "_profile", ".", ClaimedExtension[content_type]>>>>

WriteOps == {k \in 1..Len(fsops) : fsops[k].op = "write"}

\* C27: every path a picture upload writes to is
\* uploads/profile_pictures/<user id>_profile.<ext>, with the user id of the
\* bearer token and the extension of the content type alone (jpeg and jpg
\* give jpg, png png, gif gif, webp webp); file_name and the image bytes
\* have no part in it, and no other file of local storage changes.
C27_DestinationFromUserAndType ==
    UploadDone =>
        /\ \A k \in WriteOps :
              /\ HasBearer(req.header)
              /\ req.user_id = from_request(req.header).user_id
              /\ req.body.content_type \in AllowedTypes
              /\ fsops[k].path = ClaimedPath(req.user_id, req.body.content_type)
        /\ \A f \in fs.files \ req.files.files :
              /\ WriteOps # {}
              /\ f.name = ClaimedPath(req.user_id, req.body.content_type)[3]

\* A gif uploaded under a file name that points elsewhere.
C27_Witness ==
    /\ UploadDone
    /\ req.body.content_type = "image/gif"
    /\ req.body.file_name = <<".", ".", "/", "evil", ".", "gif">>
    /\ resp.code = 200
    /\ WriteOps # {}
    /\ <<req.user_id, "_profile", ".", "gif">> \in FileNames(fs.files)

(***************************************************************************)
(* Claims about the caller of the post listing.                            *)
(***************************************************************************)
ListedPosts == ListPostsDone /\ resp.code = 200

\* The identity the extractor finds in the request's header, if any.
Caller == from_request(req.header)

C28_FallbackOwnerReached ==
    /\ ListedPosts
    /\ Caller.ok
    /\ resp.message = "Posts retrieved successfully (basic mode)"
    /\ \E i \in 1..Len(resp.data.posts) :
          resp.data.posts[i].is_own_post /\ resp.data.posts[i].author_name = "You"

\* An anonymous caller, by a missing header and by an invalid token, listing
\* a post without a user id.
C28_AnonymousReached ==
    /\ ListedPosts
    /\ ~Caller.ok /\ req.header.present
    /\ \E i \in 1..Len(req.table) : req.table[i].user_id = ""

(***************************************************************************)
(* Claims about the picture a profile row refers to.                       *)
(***************************************************************************)
\* The upload whose PATCH set the picture URL the row of user u holds: the
\* last successful PATCH for u in the log.
SetUrlOf(u, w) ==
    /\ UploadSucceeded(w)
    /\ workers[w].user_id = u
    /\ \A v \in Workers :
          (UploadSucceeded(v) /\ workers[v].user_id = u) =>
              workers[v].patched <= workers[w].patched

AllUploadsEnded == \A w \in Workers : workers[w].pc \in {"idle", "done"}

\* C29: after any sequence or interleaving of uploads for one user, when no
\* upload is in flight and the profile row's picture URL is not null, the
\* file it names exists in local storage and holds the bytes of the upload
\* that set the URL; a later upload that fails does not remove or replace
\* it.
C29_ReferencedPictureStays ==
    AllUploadsEnded =>
        \A u \in Users : \A w \in Workers :
            (db[u] # NoUrl /\ SetUrlOf(u, w)) =>
                /\ db[u] = PublicUrl(WorkerFileName(w))
                /\ WorkerFileName(w) \in FileNames(fs.files)
                /\ FileNamed(fs.files, WorkerFileName(w)).bytes = workers[w].bytes

\* What does hold: the row's URL is the one of the upload that set it, and
\* the file is there with its bytes unless another upload for the same user
\* and extension wrote, truncated or removed it.
C29_ReferencedPictureStaysIfAlone ==
    AllUploadsEnded =>
        \A u \in Users : \A w \in Workers :
            (db[u] # NoUrl /\ SetUrlOf(u, w)) =>
                /\ db[u] = PublicUrl(WorkerFileName(w))
                /\ (\A v \in Workers \ {w} :
                       workers[v].pc = "done" /\ workers[v].resp.code # 400
                           => WorkerFileName(v) # WorkerFileName(w))
                   => /\ WorkerFileName(w) \in FileNames(fs.files)
                      /\ FileNamed(fs.files, WorkerFileName(w)).bytes = workers[w].bytes

\* An upload succeeds; a later upload for the same user and type starts
\* after it, fails at its PATCH and removes the file the row names.
C29_LaterFailureRemovesPicture ==
    \E v, w \in Workers :
        /\ AllUploadsEnded
        /\ SetUrlOf(workers[w].user_id, w)
        /\ workers[v].pc = "done"
        /\ workers[v].resp.message = "Failed to save profile picture information"
        /\ workers[v].wrote > workers[w].wrote
        /\ workers[v].patched > workers[w].patched
        /\ db[workers[w].user_id] = PublicUrl(WorkerFileName(w))
        /\ WorkerFileName(w) \notin FileNames(fs.files)

(***************************************************************************)
(* Claims about fetching an uploaded picture.                              *)
(***************************************************************************)
FetchedReturnedUrl == pc = "done" /\ "routed" \in DOMAIN req /\ req.method = "GET"

\* The image content type that corresponds to an uploaded one.
ServedTypeOf(content_type) ==
    IF content_type \in {"image/jpeg", "image/jpg"} THEN "image/jpeg" ELSE content_type

RoundTrip ==
    /\ req.handler = "serve_profile_picture"
    /\ resp.code = 200
    /\ resp.kind = "bytes"
    /\ resp.message = req.uploaded.bytes
    /\ resp.status = ServedTypeOf(req.uploaded.content_type)

\* C30: after a successful upload with an allowed content type, a GET of
\* the profile_picture_url of the upload's response is dispatched by the
\* routes of main to the picture-serving handler and returns 200 with the
\* uploaded bytes and the image content type of the upload.
C30_UploadThenGetRoundTrip ==
    (FetchedReturnedUrl /\ req.routed) => RoundTrip

\* What does hold: the serving handler, given the filename of the URL,
\* returns the uploaded bytes with the corresponding content type.
C30_RoundTripAtTheHandler ==
    (FetchedReturnedUrl /\ ~req.routed) => RoundTrip

====
